---- MODULE Spec2Model ----
(***************************************************************************)
(* A model of the AR-Shot bubble shooter: the advisor client               *)
(* (getStrategicHint and its local fallback getBestLocalTarget) and the    *)
(* game component's input / tick / advisor-request state machine           *)
(* (GeminiSlingshot).                                                      *)
(*                                                                         *)
(* The specifications share the variables:                                 *)
(*   SpecLocal    getBestLocalTarget applied to bounded candidate lists    *)
(*   SpecAdvisor  one getStrategicHint call, every transport outcome       *)
(*   SpecGame     the component: handlers, ticks, timers, advisor replies  *)
(*   SpecFlight   the component at one difficulty, with the flight clock   *)
(*   SpecBoard    one match check, bomb or enumeration on a bounded board  *)
(*   SpecGrid     initGrid, settled shots with grid-snap, ceiling drops    *)
(*   SpecPlay     a game in play on the grid: frames with collisions,      *)
(*                colour selection, renders, advisor requests and replies  *)
(*   SpecOver     the shot that ends a game, and what follows              *)
(*   SpecCells    isNeighbor applied to two bubbles                        *)
(***************************************************************************)
EXTENDS Integers, Sequences, FiniteSets

VARIABLES
    \* ---- advisor client (getStrategicHint) ----
    validTargets,   \* the candidate array passed in (sorted in place by the fallback)
    pc,             \* where the call is: "attempt", "wait", "done", "rejected", "idle"
    i,              \* loop index of the retry loop
    delay,          \* current backoff delay in ms
    attempts,       \* number of times the transport has been invoked
    waits,          \* the backoff delays waited so far, in order
    errs,           \* the errors thrown by the transport so far, in order
    response,       \* the response the transport resolved with (NoResponse until then)
    result,         \* the AiResponse the call resolved with (NoResult until then)
    \* ---- game component (GeminiSlingshot) ----
    appState,           \* 'BOOT' | 'HAND_SCAN' | 'VOICE_VERIFY' | 'GAME_LOBBY' | 'PLAYING'
    isFlying,           \* isFlying.current
    isPinching,         \* isPinching.current
    isMouseDragging,    \* isMouseDragging.current
    isAiThinkingRef,    \* isAiThinkingRef.current
    captureRequestRef,  \* captureRequestRef.current
    gameOverRef,        \* gameOverRef.current
    ballDist,           \* distance of ballPos from anchorPos, in pixels
    difficultyRef,      \* difficultyRef.current
    totalShotsRef,      \* totalShotsRef.current
    shotsUntilDropRef,  \* shotsUntilDropRef.current
    captureTimers,      \* pending setTimeout(() => captureRequestRef.current = true, 2000)
    analysisTimers,     \* pending setTimeout(() => performAiAnalysis(screenshot), 0)
    outstanding,        \* getStrategicHint promises not yet resolved
    lastLaunch,         \* what the flags were when the latest launch was performed
    flightAge,          \* performance.now() - flightStartTime.current of the flight in
                        \* progress, in ms, at the latest launch or frame; the code
                        \* reads it only while isFlying.current, so every age past the
                        \* limit, and the age when no ball flies, is one value
    ballVel,            \* ballVel.current: "zero" or "moving"
    flightTimedOut,     \* the latest frame's physics update hit the flight limit
    \* ---- the board (bubbles.current, scoreRef.current) ----
    bubbles,            \* bubbles.current, in array order
    scoreRef,           \* scoreRef.current
    prevBubbles,        \* bubbles.current before the latest board operation
    prevScore,          \* scoreRef.current before the latest board operation
    lastOp,             \* the latest board operation and the bubble it was about
    \* ---- the colour selection and the React tree ----
    selectedColorRef,   \* selectedColorRef.current
    selectedColor,      \* the selectedColor state
    aiRecommendedColor, \* the aiRecommendedColor state ("none" for null)
    mounted             \* the component is mounted (no render has thrown)

advisorVars == <<validTargets, pc, i, delay, attempts, waits, errs, response, result>>

gameVars == <<appState, isFlying, isPinching, isMouseDragging, isAiThinkingRef,
              captureRequestRef, gameOverRef, ballDist, difficultyRef,
              totalShotsRef, shotsUntilDropRef, captureTimers, analysisTimers,
              outstanding, lastLaunch, flightAge, ballVel, flightTimedOut>>

colorVars == <<selectedColorRef, selectedColor, aiRecommendedColor, mounted>>

boardVars == <<bubbles, scoreRef, prevBubbles, prevScore, lastOp,
               selectedColorRef, selectedColor, aiRecommendedColor, mounted>>

vars == <<validTargets, pc, i, delay, attempts, waits, errs, response, result,
          appState, isFlying, isPinching, isMouseDragging, isAiThinkingRef,
          captureRequestRef, gameOverRef, ballDist, difficultyRef,
          totalShotsRef, shotsUntilDropRef, captureTimers, analysisTimers,
          outstanding, lastLaunch, flightAge, ballVel, flightTimedOut,
          bubbles, scoreRef, prevBubbles, prevScore, lastOp,
          selectedColorRef, selectedColor, aiRecommendedColor, mounted>>

(***************************************************************************)
(* JavaScript values.  A value is a record with a type tag; numbers carry  *)
(* n, strings carry s, NaN is the number whose s is "NaN".                 *)
(***************************************************************************)
Undefined == [t |-> "undefined", n |-> 0, s |-> ""]

Null == [t |-> "null", n |-> 0, s |-> ""]

NaN == [t |-> "number", n |-> 0, s |-> "NaN"]

Num(k) == [t |-> "number", n |-> k, s |-> ""]

Str(x) == [t |-> "string", n |-> 0, s |-> x]

\* JavaScript truthiness (the operand of ||, && and if).
Truthy(v) ==
    CASE v.t = "undefined" -> FALSE
      [] v.t = "null" -> FALSE
      [] v.t = "number" -> v.s # "NaN" /\ v.n # 0
      [] v.t = "string" -> v.s # ""
      [] OTHER -> TRUE

\* a || b
OrElse(a, b) == IF Truthy(a) THEN a ELSE b

\* The decimal strings of the model and the numbers they denote.
DecimalStrings == {"0", "1", "2", "3", "4", "5"}

DecimalValue(x) ==
    CASE x = "0" -> 0 [] x = "1" -> 1 [] x = "2" -> 2
      [] x = "3" -> 3 [] x = "4" -> 4 [] x = "5" -> 5

\* Number(v): undefined -> NaN, null -> 0, "" -> 0, a decimal string -> its
\* value, any other string -> NaN, a number -> itself.
ToNumber(v) ==
    CASE v.t = "undefined" -> NaN
      [] v.t = "null" -> Num(0)
      [] v.t = "number" -> v
      [] v.t = "string" ->
            IF v.s = "" THEN Num(0)
            ELSE IF v.s \in DecimalStrings THEN Num(DecimalValue(v.s))
            ELSE NaN
      [] OTHER -> NaN

\* String.prototype.toLowerCase / toUpperCase on the strings of the model.
toLowerCase(x) ==
    CASE x = "Green" -> "green" [] x = "GREEN" -> "green"
      [] x = "Red" -> "red" [] x = "Pink" -> "pink"
      [] OTHER -> x

toUpperCase(x) ==
    CASE x = "red" -> "RED" [] x = "blue" -> "BLUE" [] x = "green" -> "GREEN"
      [] x = "yellow" -> "YELLOW" [] x = "purple" -> "PURPLE"
      [] x = "orange" -> "ORANGE"
      [] OTHER -> x

\* A template literal is the sequence of its pieces; a plain string is the
\* one-piece text.  A text is empty when every piece renders to "".
Text(x) == <<Str(x)>>

NoText == <<>>

IsEmptyText(txt) == \A k \in 1..Len(txt) : txt[k] = Str("")

(***************************************************************************)
(* Palette and candidates (src/types.ts TargetCandidate).                  *)
(***************************************************************************)
COLOR_KEYS == <<"red", "blue", "green", "yellow", "purple", "orange">>

Palette == {COLOR_KEYS[k] : k \in 1..Len(COLOR_KEYS)}

Points(color) ==
    CASE color = "red" -> 100 [] color = "blue" -> 150 [] color = "green" -> 200
      [] color = "yellow" -> 250 [] color = "purple" -> 300 [] color = "orange" -> 500

\* powerUp is "bomb", "rainbow" or "none" (undefined).
Candidate(color, size, row, col, ppb, powerUp) ==
    [color |-> color, size |-> size, row |-> row, col |-> col,
     pointsPerBubble |-> ppb, powerUp |-> powerUp]

\* A bomb candidate as the enumerator builds it (colour 'red', size 10, 500 points).
BombAt(row, col) == Candidate("red", 10, row, col, 500, "bomb")

Cluster(color, size, row, col, powerUp) ==
    Candidate(color, size, row, col, Points(color), powerUp)

\* The candidates the lists are drawn from: two bombs, two rainbow clusters and
\* three plain clusters, two of which tie on size * pointsPerBubble (1000) with
\* different rows.  Every candidate has its own cell.
CandidatePool ==
    { BombAt(4, 1), BombAt(1, 5),
      Cluster("blue", 3, 2, 0, "rainbow"), Cluster("orange", 2, 5, 3, "rainbow"),
      Cluster("orange", 2, 2, 2, "none"), Cluster("red", 6, 8, 4, "none"),
      Cluster("yellow", 4, 1, 6, "none") }

\* Longest candidate list given to getBestLocalTarget alone.
MaxTargets == 3

RECURSIVE SeqsUpTo(_, _)
SeqsUpTo(S, n) ==
    IF n = 0 THEN {<<>>}
    ELSE LET shorter == SeqsUpTo(S, n - 1)
         IN  shorter \cup {Append(q, x) : q \in {r \in shorter : Len(r) = n - 1}, x \in S}

(***************************************************************************)
(* getBestLocalTarget: the comparator and Array.prototype.sort.            *)
(***************************************************************************)
\* A comparator that drops the bomb rule.
CompareNoBomb(a, b) ==
    IF a.powerUp = "rainbow" THEN -1
    ELSE IF b.powerUp = "rainbow" THEN 1
    ELSE LET scoreA == a.size * a.pointsPerBubble
             scoreB == b.size * b.pointsPerBubble
         IN  IF scoreB # scoreA THEN scoreB - scoreA ELSE a.row - b.row

\* A comparator whose tie-break prefers the higher row index.
CompareRowDescending(a, b) ==
    IF a.powerUp = "bomb" THEN -1
    ELSE IF b.powerUp = "bomb" THEN 1
    ELSE IF a.powerUp = "rainbow" THEN -1
    ELSE IF b.powerUp = "rainbow" THEN 1
    ELSE LET scoreA == a.size * a.pointsPerBubble
             scoreB == b.size * b.pointsPerBubble
         IN  IF scoreB # scoreA THEN scoreB - scoreA ELSE b.row - a.row

\* The comparator given to sort.
Compare(a, b) ==
    IF a.powerUp = "bomb" THEN -1
    ELSE IF b.powerUp = "bomb" THEN 1
    ELSE IF a.powerUp = "rainbow" THEN -1
    ELSE IF b.powerUp = "rainbow" THEN 1
    ELSE LET scoreA == a.size * a.pointsPerBubble
             scoreB == b.size * b.pointsPerBubble
         IN  IF scoreB # scoreA THEN scoreB - scoreA ELSE a.row - b.row

\* The comparator is not a consistent comparison function (two bombs, or two
\* rainbows, each compare as less than the other), so ECMAScript leaves the
\* order to the engine.  The engines' algorithms, for arrays this short:
\*   "timsort"    run detection + binary insertion (V8 since 7.0)
\*   "insertion"  straight insertion from the right (older V8, short arrays)
\*   "merge"      stable merge sort (SpiderMonkey, JavaScriptCore)
Engines == {"timsort", "insertion", "merge"}

ReversePrefix(a, n) ==
    [k \in 1..Len(a) |-> IF k <= n THEN a[n + 1 - k] ELSE a[k]]

\* Move the element at position from to position to (to <= from).
MoveTo(a, from, to) ==
    [k \in 1..Len(a) |->
        IF k < to \/ k > from THEN a[k]
        ELSE IF k = to THEN a[from]
        ELSE a[k - 1]]

RECURSIVE RunEnd(_, _, _)
RunEnd(a, idx, desc) ==
    IF idx > Len(a) THEN Len(a)
    ELSE LET order == Compare(a[idx], a[idx - 1])
         IN  IF (desc /\ order >= 0) \/ (~desc /\ order < 0) THEN idx - 1
             ELSE RunEnd(a, idx + 1, desc)

\* left and right are 0-based, as in the engine; the result is the 0-based slot.
RECURSIVE BinarySlot(_, _, _, _)
BinarySlot(a, pivot, left, right) ==
    IF left >= right THEN left
    ELSE LET mid == left + ((right - left) \div 2)
         IN  IF Compare(pivot, a[mid + 1]) < 0
             THEN BinarySlot(a, pivot, left, mid)
             ELSE BinarySlot(a, pivot, mid + 1, right)

RECURSIVE BinaryInsertionFrom(_, _)
BinaryInsertionFrom(a, start) ==
    IF start > Len(a) THEN a
    ELSE LET slot == BinarySlot(a, a[start], 0, start - 1)
         IN  BinaryInsertionFrom(MoveTo(a, start, slot + 1), start + 1)

TimSort(a) ==
    IF Len(a) < 2 THEN a
    ELSE LET desc == Compare(a[2], a[1]) < 0
             run == RunEnd(a, 3, desc)
             made == IF desc THEN ReversePrefix(a, run) ELSE a
         IN  BinaryInsertionFrom(made, run + 1)

\* Slot of a[from] among a[1..from-1], scanning from the right while the
\* element on the left compares greater.
RECURSIVE LinearSlot(_, _, _)
LinearSlot(a, from, j) ==
    IF j >= 1 /\ Compare(a[j], a[from]) > 0 THEN LinearSlot(a, from, j - 1)
    ELSE j + 1

RECURSIVE InsertionFrom(_, _)
InsertionFrom(a, start) ==
    IF start > Len(a) THEN a
    ELSE InsertionFrom(MoveTo(a, start, LinearSlot(a, start, start - 1)), start + 1)

InsertionSort(a) == InsertionFrom(a, 2)

RECURSIVE Merge(_, _)
Merge(l, r) ==
    IF l = <<>> THEN r
    ELSE IF r = <<>> THEN l
    ELSE IF Compare(l[1], r[1]) <= 0 THEN <<l[1]>> \o Merge(Tail(l), r)
    ELSE <<r[1]>> \o Merge(l, Tail(r))

RECURSIVE MergeSort(_)
MergeSort(a) ==
    IF Len(a) < 2 THEN a
    ELSE LET half == Len(a) \div 2
         IN  Merge(MergeSort(SubSeq(a, 1, half)), MergeSort(SubSeq(a, half + 1, Len(a))))

\* validTargets.sort(comparator) under engine e.
SortTargets(a, e) ==
    CASE e = "timsort" -> TimSort(a)
      [] e = "insertion" -> InsertionSort(a)
      [] e = "merge" -> MergeSort(a)

\* A hint (src/types.ts StrategicHint); absent optional fields are Undefined.
Hint(message, rationale, row, col, color) ==
    [message |-> message, rationale |-> rationale, targetRow |-> row,
     targetCol |-> col, recommendedColor |-> color]

\* The default msg of the source, its dash written in ASCII.
DefaultMsg == "No clear shots--play defensively."

\* A fallback that answers an empty array with the default message whatever
\* msg it was given.
getBestLocalTargetDefaultMsg(a, msg, e) ==
    IF Len(a) > 0
    THEN LET best == SortTargets(a, e)[1]
             message ==
                 IF best.powerUp = "bomb" THEN Text("Fallback: TRIGGER BOMB!")
                 ELSE <<Str("Fallback: Select "), Str(toUpperCase(best.color)),
                        Str(" at Row "), Num(best.row)>>
         IN  Hint(message, Str("Selected based on value and strategic priority."),
                  Num(best.row), Num(best.col), Str(best.color))
    ELSE Hint(Text(DefaultMsg), Str("No valid clusters found to target."),
              Undefined, Undefined, Undefined)

\* getBestLocalTarget(msg) on the array a, sorted by engine e.
getBestLocalTarget(a, msg, e) ==
    IF Len(a) > 0
    THEN LET best == SortTargets(a, e)[1]
             message ==
                 IF best.powerUp = "bomb" THEN Text("Fallback: TRIGGER BOMB!")
                 ELSE <<Str("Fallback: Select "), Str(toUpperCase(best.color)),
                        Str(" at Row "), Num(best.row)>>
         IN  Hint(message, Str("Selected based on value and strategic priority."),
                  Num(best.row), Num(best.col), Str(best.color))
    ELSE Hint(Text(msg), Str("No valid clusters found to target."),
              Undefined, Undefined, Undefined)

(***************************************************************************)
(* getStrategicHint: transport errors and their classification.            *)
(***************************************************************************)
\* The object thrown by ai.models.generateContent.  plain tells a plain object
\* (whose message is enumerable and so appears in JSON.stringify) from an
\* Error instance; hasError tells whether err.error is an object.
TransportError(plain, status, respStatus, message, hasError, code, errStatus, errMessage) ==
    [plain |-> plain, status |-> status, respStatus |-> respStatus, message |-> message,
     hasError |-> hasError, errorCode |-> code, errorStatus |-> errStatus,
     errorMessage |-> errMessage]

\* The signal words each string of the model contains (String.prototype.includes).
Tokens(x) ==
    CASE x = "429 Too Many Requests" -> {"429"}
      [] x = "Quota exceeded" -> {"Quota"}
      [] x = "RESOURCE_EXHAUSTED" -> {"RESOURCE_EXHAUSTED"}
      [] x = "503 Service Unavailable" -> {"503"}
      [] x = "The model is overloaded" -> {"overloaded"}
      [] x = "UNAVAILABLE" -> {"UNAVAILABLE"}
      [] OTHER -> {}

Includes(v, token) == v.t = "string" /\ token \in Tokens(v.s)

\* Errors carrying a rate-limit signal.
QuotaErrors ==
    { TransportError(FALSE, Num(429), Undefined, Str(""), FALSE, Undefined, Undefined, Undefined),
      TransportError(FALSE, Undefined, Undefined, Str("Quota exceeded"), FALSE,
                     Undefined, Undefined, Undefined),
      TransportError(TRUE, Undefined, Undefined, Undefined, TRUE,
                     Undefined, Str("RESOURCE_EXHAUSTED"), Undefined) }

\* Errors carrying an unavailable-service signal.
OverloadErrors ==
    { TransportError(FALSE, Undefined, Num(503), Str("fetch failed"), FALSE,
                     Undefined, Undefined, Undefined),
      TransportError(TRUE, Undefined, Undefined, Undefined, TRUE,
                     Num(503), Str("UNAVAILABLE"), Str("The model is overloaded")),
      \* both signals at once
      TransportError(FALSE, Num(429), Undefined, Str("503 Service Unavailable"), FALSE,
                     Undefined, Undefined, Undefined) }

\* Errors carrying neither signal.
TransientErrors ==
    { TransportError(FALSE, Num(500), Undefined, Str("Internal error"), FALSE,
                     Undefined, Undefined, Undefined),
      TransportError(FALSE, Undefined, Undefined, Str("fetch failed"), FALSE,
                     Undefined, Undefined, Undefined),
      TransportError(FALSE, Undefined, Undefined, Str(""), FALSE,
                     Undefined, Undefined, Undefined) }

TransportErrors == QuotaErrors \cup OverloadErrors \cup TransientErrors

\* let status = err.status || err.response?.status, then the err.error branch.
StatusOf(err) ==
    LET first == OrElse(err.status, err.respStatus)
    IN  IF err.hasError
        THEN LET second == OrElse(first, err.errorCode)
             IN  IF ~Truthy(second) /\ Truthy(err.errorStatus) THEN err.errorStatus
                 ELSE second
        ELSE first

\* let msg = err.message || '', then msg = msg || err.error.message || ''.
MsgOf(err) ==
    LET first == OrElse(err.message, Str(""))
    IN  IF err.hasError THEN OrElse(OrElse(first, err.errorMessage), Str(""))
        ELSE first

\* The signal words in JSON.stringify(err): the own enumerable properties.
StringifyTokens(err) ==
    (IF err.plain /\ err.message.t = "string" THEN Tokens(err.message.s) ELSE {})
    \cup (IF err.hasError /\ err.errorStatus.t = "string" THEN Tokens(err.errorStatus.s) ELSE {})
    \cup (IF err.hasError /\ err.errorMessage.t = "string" THEN Tokens(err.errorMessage.s) ELSE {})

isQuota(err) ==
    \/ StatusOf(err) = Num(429)
    \/ Includes(MsgOf(err), "429")
    \/ Includes(MsgOf(err), "Quota")
    \/ Includes(MsgOf(err), "RESOURCE_EXHAUSTED")
    \/ "RESOURCE_EXHAUSTED" \in StringifyTokens(err)

isOverloaded(err) ==
    \/ StatusOf(err) = Num(503)
    \/ Includes(MsgOf(err), "503")
    \/ Includes(MsgOf(err), "overloaded")
    \/ Includes(MsgOf(err), "UNAVAILABLE")
    \/ "UNAVAILABLE" \in StringifyTokens(err)

(***************************************************************************)
(* getStrategicHint: responses.                                            *)
(***************************************************************************)
\* response.text by kind: "empty" (no text, read as "{}"), "invalid" (not JSON),
\* "null" (the JSON null), "number" (a JSON number), "object" (a JSON object
\* with the five fields, Undefined when the key is missing).
Response(kind, message, rationale, color, row, col) ==
    [kind |-> kind, message |-> message, rationale |-> rationale,
     recommendedColor |-> color, targetRow |-> row, targetCol |-> col]

NoResponse == Response("none", Undefined, Undefined, Undefined, Undefined, Undefined)

ObjectResponses ==
    { Response("object", m, ra, co, r, c) :
        m \in {Undefined, Str(""), Str("Fire at will")},
        ra \in {Undefined, Str("Biggest cluster")},
        co \in {Undefined, Str(""), Str("Green"), Num(7)},
        r \in {Undefined, Null, Num(3), Str("3"), Str("abc")},
        c \in {Undefined, Num(7)} }

Responses ==
    ObjectResponses \cup
    { Response(k, Undefined, Undefined, Undefined, Undefined, Undefined) :
        k \in {"empty", "invalid", "null", "number"} }

\* An AiResponse: the hint, debug.error (NoText when absent) and debug.rawResponse.
AiResponse(hint, error, raw) == [hint |-> hint, error |-> error, rawResponse |-> raw]

NoResult == AiResponse(Hint(NoText, Undefined, Undefined, Undefined, Undefined), NoText, NoResponse)

\* What a step of the call leaves: the next position, the value resolved with
\* and the candidate array (getBestLocalTarget sorts it in place).
Outcome(next, res, targets) == [pc |-> next, result |-> res, targets |-> targets]

\* return { hint: getBestLocalTarget(msg), debug: { ...debug, error } }
Fallback(targets, msg, error, raw, e) ==
    Outcome("done", AiResponse(getBestLocalTarget(targets, msg, e), error, raw),
            IF Len(targets) > 0 THEN SortTargets(targets, e) ELSE targets)

ParseError(detail) == <<Str("JSON Parse Error: "), Str(detail)>>

\* A test that forgets targetRow.
IsAcceptedColOnly(resp) ==
    ToNumber(resp.targetCol) # NaN /\ Truthy(resp.recommendedColor)

\* A test that forgets targetCol.
IsAcceptedRowOnly(resp) ==
    ToNumber(resp.targetRow) # NaN /\ Truthy(resp.recommendedColor)

\* const r = Number(json.targetRow); const c = Number(json.targetCol);
\* if (!isNaN(r) && !isNaN(c) && json.recommendedColor)
IsAccepted(resp) ==
    ToNumber(resp.targetRow) # NaN /\ ToNumber(resp.targetCol) # NaN
    /\ Truthy(resp.recommendedColor)

\* A hint with row and column exchanged.
AcceptedHintSwapped(resp) ==
    Hint(<<OrElse(resp.message, Str("Good shot available!"))>>, resp.rationale,
         ToNumber(resp.targetCol), ToNumber(resp.targetRow),
         Str(toLowerCase(resp.recommendedColor.s)))

\* The hint built from an accepted response whose recommendedColor is a string.
AcceptedHint(resp) ==
    Hint(<<OrElse(resp.message, Str("Good shot available!"))>>, resp.rationale,
         ToNumber(resp.targetRow), ToNumber(resp.targetCol),
         Str(toLowerCase(resp.recommendedColor.s)))

\* The code from `let text = response.text || "{}"` to the end of the inner
\* try/catch: JSON.parse, the test, and the hint built from the response.  A
\* non-object JSON value has none of the keys; reading a key of null throws;
\* toLowerCase of a value that is no string throws; both land in the inner catch.
ValidateResponse(resp, targets, e) ==
    IF resp.kind = "invalid"
    THEN Fallback(targets, "AI response parse error", ParseError("Unexpected token"), resp, e)
    ELSE IF resp.kind = "null"
    THEN Fallback(targets, "AI response parse error",
                  ParseError("Cannot read properties of null"), resp, e)
    ELSE IF IsAccepted(resp)
    THEN IF resp.recommendedColor.t # "string"
         THEN Fallback(targets, "AI response parse error",
                       ParseError("toLowerCase is not a function"), resp, e)
         ELSE Outcome("done", AiResponse(AcceptedHint(resp), NoText, resp), targets)
    ELSE Fallback(targets, "AI returned invalid coordinates",
                  Text("Invalid Coordinates in JSON"), resp, e)

(***************************************************************************)
(* getStrategicHint: the retry loop.                                       *)
(***************************************************************************)
retries == 3

InitialDelay == 1000

\* A backoff that does not grow.
NextDelayFlat(d) == d

\* delay *= 2
NextDelay(d) == d * 2

\* `${status || 'Error'}: Service Unavailable`
ServiceUnavailable(err) == <<OrElse(StatusOf(err), Str("Error")), Str(": Service Unavailable")>>

\* error.message || "Unknown API Error"
ApiErrorText(err) == <<OrElse(err.message, Str("Unknown API Error"))>>

\* A catch branch that retries quota and overload failures like any other.
OnAttemptErrorRetryAll(err, idx, targets, e) ==
    IF idx = retries - 1
    THEN Fallback(targets, "AI Service Unreachable", ApiErrorText(err), NoResponse, e)
    ELSE Outcome("wait", NoResult, targets)

\* A catch branch whose last rethrow is not caught by an outer try.
OnAttemptErrorUncaught(err, idx, targets, e) ==
    IF isQuota(err) \/ isOverloaded(err)
    THEN Fallback(targets,
                  IF isOverloaded(err) THEN "Service Busy: Using Local Strategy"
                  ELSE "Offline Mode: Quota Exceeded",
                  ServiceUnavailable(err), NoResponse, e)
    ELSE IF idx = retries - 1
    THEN Outcome("rejected", NoResult, targets)
    ELSE Outcome("wait", NoResult, targets)

\* The catch (err) branch of the retry loop, on iteration idx: quota and
\* overload return the fallback at once (the source's two messages begin with
\* a warning sign, left out of the strings here); the last iteration rethrows into the
\* outer catch, which returns the fallback; any other iteration goes on to
\* await the backoff timer.
OnAttemptError(err, idx, targets, e) ==
    IF isQuota(err) \/ isOverloaded(err)
    THEN Fallback(targets,
                  IF isOverloaded(err) THEN "Service Busy: Using Local Strategy"
                  ELSE "Offline Mode: Quota Exceeded",
                  ServiceUnavailable(err), NoResponse, e)
    ELSE IF idx = retries - 1
    THEN Fallback(targets, "AI Service Unreachable", ApiErrorText(err), NoResponse, e)
    ELSE Outcome("wait", NoResult, targets)

\* No launch has been performed yet.
NoLaunch == [flying |-> FALSE, thinking |-> FALSE, by |-> "none", color |-> "none"]

\* No board operation has been performed yet.
NoOp == [kind |-> "none", id |-> -1, matched |-> FALSE]

\* useRef('red'), useState('red'), useState(null); the component is mounted.
ColorIdle ==
    /\ selectedColorRef = "red"
    /\ selectedColor = "red"
    /\ aiRecommendedColor = "none"
    /\ mounted = TRUE

\* An empty board.
BoardIdle ==
    /\ bubbles = <<>>
    /\ scoreRef = 0
    /\ prevBubbles = <<>>
    /\ prevScore = 0
    /\ ColorIdle
    /\ lastOp = NoOp

\* The game component at rest (its state does not matter to the advisor call).
\* The flight limit of the physics update, in ms.
FlightLimit == 5000

\* Every age past the limit, and the age when no ball flies.
PastLimit == FlightLimit + 1

GameIdle ==
    /\ appState = "BOOT"
    /\ isFlying = FALSE
    /\ isPinching = FALSE
    /\ isMouseDragging = FALSE
    /\ isAiThinkingRef = FALSE
    /\ captureRequestRef = FALSE
    /\ gameOverRef = FALSE
    /\ ballDist = 0
    /\ difficultyRef = "Medium"
    /\ totalShotsRef = 0
    /\ shotsUntilDropRef = 6
    /\ captureTimers = 0
    /\ analysisTimers = 0
    /\ outstanding = 0
    /\ lastLaunch = NoLaunch
    /\ flightAge = PastLimit
    /\ ballVel = "zero"
    /\ flightTimedOut = FALSE

\* The candidates of the lists given to a whole getStrategicHint call; their
\* rows, columns and colours differ from those a response of the model
\* names, so a hint tells which of the two it was built from.
AdvisorPool ==
    { BombAt(4, 1), Cluster("orange", 2, 2, 2, "none"), Cluster("blue", 3, 2, 0, "rainbow") }

\* Longest candidate list given to a whole getStrategicHint call.
MaxAdvisorTargets == 2

\* getStrategicHint has been called and the first transport attempt is in flight.
InitAdvisor ==
    /\ validTargets \in SeqsUpTo(AdvisorPool, MaxAdvisorTargets)
    /\ pc = "attempt"
    /\ i = 0
    /\ delay = InitialDelay
    /\ attempts = 1
    /\ waits = <<>>
    /\ errs = <<>>
    /\ response = NoResponse
    /\ result = NoResult
    /\ GameIdle
    /\ BoardIdle

\* The awaited generateContent resolves: break, then validation, then return.
AttemptSucceeds ==
    /\ pc = "attempt"
    /\ \E resp \in Responses, e \in Engines :
          LET out == ValidateResponse(resp, validTargets, e)
          IN  /\ response' = resp
              /\ result' = out.result
              /\ validTargets' = out.targets
              /\ pc' = out.pc
    /\ UNCHANGED <<i, delay, attempts, waits, errs>>
    /\ UNCHANGED gameVars
    /\ UNCHANGED boardVars

\* The awaited generateContent rejects: the catch branch.
AttemptFails ==
    /\ pc = "attempt"
    /\ \E err \in TransportErrors, e \in Engines :
          LET out == OnAttemptError(err, i, validTargets, e)
          IN  /\ errs' = Append(errs, err)
              /\ result' = out.result
              /\ validTargets' = out.targets
              /\ pc' = out.pc
    /\ UNCHANGED <<i, delay, attempts, waits, response>>
    /\ UNCHANGED gameVars
    /\ UNCHANGED boardVars

\* The backoff timer fires: delay *= 2, i++, and the next attempt is made.
BackoffElapsed ==
    /\ pc = "wait"
    /\ waits' = Append(waits, delay)
    /\ delay' = NextDelay(delay)
    /\ i' = i + 1
    /\ i + 1 < retries
    /\ attempts' = attempts + 1
    /\ pc' = "attempt"
    /\ UNCHANGED <<validTargets, errs, response, result>>
    /\ UNCHANGED gameVars
    /\ UNCHANGED boardVars

NextAdvisor == AttemptSucceeds \/ AttemptFails \/ BackoffElapsed

SpecAdvisor == InitAdvisor /\ [][NextAdvisor]_vars

(***************************************************************************)
(* getBestLocalTarget on its own.                                          *)
(***************************************************************************)
InitLocal ==
    /\ validTargets \in SeqsUpTo(CandidatePool, MaxTargets)
    /\ pc = "local"
    /\ i = 0
    /\ delay = InitialDelay
    /\ attempts = 0
    /\ waits = <<>>
    /\ errs = <<>>
    /\ response = NoResponse
    /\ result = NoResult
    /\ GameIdle
    /\ BoardIdle

\* getBestLocalTarget() with the default message.
ApplyLocal ==
    /\ pc = "local"
    /\ \E e \in Engines :
          LET out == Fallback(validTargets, DefaultMsg, NoText, NoResponse, e)
          IN  /\ result' = out.result
              /\ validTargets' = out.targets
    /\ pc' = "localDone"
    /\ UNCHANGED <<i, delay, attempts, waits, errs, response>>
    /\ UNCHANGED gameVars
    /\ UNCHANGED boardVars

NextLocal == ApplyLocal

SpecLocal == InitLocal /\ [][NextLocal]_vars

(***************************************************************************)
(* Properties of getStrategicHint (SpecAdvisor) and of getBestLocalTarget  *)
(* (SpecLocal).                                                            *)
(***************************************************************************)
Resolved == pc = "done"

\* The first piece of every message the local fallback can produce.
FallbackHeads ==
    { Str("Fallback: TRIGGER BOMB!"), Str("Fallback: Select "),
      Str("Service Busy: Using Local Strategy"), Str("Offline Mode: Quota Exceeded"),
      Str("AI returned invalid coordinates"), Str("AI response parse error"),
      Str("AI Service Unreachable"), Str(DefaultMsg) }

\* h is a hint of the local fallback for the candidates: it names the cell and
\* colour of one of them, or no target at all when there is none.
IsLocalHint(h) ==
    /\ Len(h.message) > 0
    /\ h.message[1] \in FallbackHeads
    /\ IF Len(validTargets) = 0
       THEN /\ h.targetRow = Undefined
            /\ h.targetCol = Undefined
            /\ h.recommendedColor = Undefined
            /\ h.rationale = Str("No valid clusters found to target.")
       ELSE /\ h.rationale = Str("Selected based on value and strategic priority.")
            /\ \E k \in 1..Len(validTargets) :
                  /\ h.targetRow = Num(validTargets[k].row)
                  /\ h.targetCol = Num(validTargets[k].col)
                  /\ h.recommendedColor = Str(validTargets[k].color)

HasReason == Len(result.error) > 0 /\ ~IsEmptyText(result.error)

\* The response is one the advisor can use: an object whose row and column
\* convert to numbers and whose colour is a non-empty string.
Usable(resp) ==
    /\ resp.kind = "object"
    /\ ToNumber(resp.targetRow) # NaN
    /\ ToNumber(resp.targetCol) # NaN
    /\ resp.recommendedColor.t = "string"
    /\ resp.recommendedColor.s # ""

\* C1: the call never rejects; once resolved, the hint's message is non-empty,
\* and every outcome other than a usable response (a transport failure that
\* ended the call, an unparseable response, a response with unusable fields)
\* carries an error reason in debug.error.
C1_AlwaysResolvesWithHint ==
    /\ pc # "rejected"
    /\ Resolved =>
          /\ Len(result.hint.message) > 0
          /\ ~IsEmptyText(result.hint.message)
          /\ (response = NoResponse \/ ~Usable(response)) => HasReason

\* C1 witness: three transient failures exhausted the retries and the call
\* still resolved, with a reason.
C1_Witness ==
    /\ Resolved
    /\ Len(errs) = 3
    /\ errs[3] \in TransientErrors
    /\ HasReason
    /\ ~IsEmptyText(result.hint.message)

\* C5: a quota-class or overload-class failure is the last thing the call does:
\* it is the latest failure, the call has resolved with the local fallback and
\* an error reason, and no attempt or backoff wait followed it (attempt k was
\* preceded by k - 1 waits and is the last attempt).
C5_QuotaShortCircuits ==
    \A k \in 1..Len(errs) :
        errs[k] \in QuotaErrors \cup OverloadErrors =>
            /\ k = Len(errs)
            /\ Resolved
            /\ attempts = k
            /\ Len(waits) = k - 1
            /\ response = NoResponse
            /\ IsLocalHint(result.hint)
            /\ HasReason

\* C5 witness: a quota failure on the first attempt, resolved after one attempt.
C5_Witness ==
    /\ Resolved
    /\ Len(errs) = 1
    /\ errs[1] \in QuotaErrors
    /\ attempts = 1
    /\ waits = <<>>

\* C6: at most 3 transport invocations; before attempt 2 exactly the 1000 ms
\* wait, before attempt 3 the 1000 ms and then the 2000 ms wait, each following
\* a failure; a wait is only ever pending after failure 1 or 2, never after the
\* third failure, and there is no fourth attempt.
C6_ThreeAttemptsWithBackoff ==
    /\ attempts \in 1..3
    /\ waits = SubSeq(<<1000, 2000>>, 1, attempts - 1)
    /\ Len(errs) >= attempts - 1
    /\ Len(errs) <= attempts
    /\ pc = "wait" => (Len(errs) = attempts /\ attempts < 3)

\* C6 witness: the third attempt failed and the call resolved after the two waits.
C6_Witness ==
    /\ Resolved
    /\ attempts = 3
    /\ Len(errs) = 3
    /\ waits = <<1000, 2000>>

\* A valid structured response: the five fields with the types of the schema.
ValidResponse(resp) ==
    /\ resp.kind = "object"
    /\ resp.message.t = "string" /\ resp.message.s # ""
    /\ resp.rationale.t = "string"
    /\ resp.recommendedColor.t = "string" /\ resp.recommendedColor.s # ""
    /\ resp.targetRow.t = "number" /\ resp.targetRow # NaN
    /\ resp.targetCol.t = "number" /\ resp.targetCol # NaN

\* The colour names of the model in lower case, spelled out.
LowerCased(x) == IF x = "Green" THEN "green" ELSE x

\* C7: two transient failures, then a valid structured response: the call
\* resolves with the response's message, rationale, row and column and its
\* colour in lower case, with no error reason, after exactly three attempts.
C7_ThirdAttemptSucceeds ==
    ( /\ Resolved
      /\ Len(errs) = 2
      /\ errs[1] \in TransientErrors
      /\ errs[2] \in TransientErrors
      /\ ValidResponse(response) )
    => /\ result.hint.message = <<response.message>>
       /\ result.hint.rationale = response.rationale
       /\ result.hint.targetRow = response.targetRow
       /\ result.hint.targetCol = response.targetCol
       /\ result.hint.recommendedColor = Str(LowerCased(response.recommendedColor.s))
       /\ result.error = NoText
       /\ attempts = 3
       /\ waits = <<1000, 2000>>

\* C7 witness: such a call.
C7_Witness ==
    /\ Resolved
    /\ Len(errs) = 2
    /\ errs[1] \in TransientErrors
    /\ errs[2] \in TransientErrors
    /\ ValidResponse(response)
    /\ result.hint.recommendedColor = Str("green")

Accepted == Resolved /\ response # NoResponse /\ result.error = NoText

\* C8 as stated: a response is accepted only with message, recommendedColor,
\* targetRow and targetCol all present; one missing any of the four yields the
\* local fallback with an error reason.
C8_AllFourRequired ==
    (Resolved /\ response.kind = "object") =>
        /\ Accepted =>
              /\ response.message # Undefined
              /\ response.recommendedColor # Undefined
              /\ response.targetRow # Undefined
              /\ response.targetCol # Undefined
        /\ ( \/ response.message = Undefined
             \/ response.recommendedColor = Undefined
             \/ response.targetRow = Undefined
             \/ response.targetCol = Undefined )
           => (IsLocalHint(result.hint) /\ HasReason)

\* C8 amended: a response is accepted only with recommendedColor, targetRow and
\* targetCol all present; one missing any of these three yields the local
\* fallback with an error reason; a usable response that misses only its
\* message is accepted, with the message "Good shot available!".
C8_ThreeRequired ==
    (Resolved /\ response.kind = "object") =>
        /\ Accepted =>
              /\ response.recommendedColor # Undefined
              /\ response.targetRow # Undefined
              /\ response.targetCol # Undefined
        /\ ( \/ response.recommendedColor = Undefined
             \/ response.targetRow = Undefined
             \/ response.targetCol = Undefined )
           => (IsLocalHint(result.hint) /\ HasReason)
        /\ (Usable(response) /\ response.message = Undefined)
           => (Accepted /\ result.hint.message = Text("Good shot available!"))

\* C8 witness: a response without message, accepted with the default message.
C8_Witness ==
    /\ Accepted
    /\ response.message = Undefined
    /\ result.hint.message = Text("Good shot available!")
    /\ result.hint.targetRow = Num(3)

\* The response text does not parse as a structured document, or targetRow or
\* targetCol does not convert to a number, or recommendedColor is absent.
Malformed(resp) ==
    \/ resp.kind \in {"invalid", "null", "number"}
    \/ ToNumber(resp.targetRow) = NaN
    \/ ToNumber(resp.targetCol) = NaN
    \/ resp.recommendedColor = Undefined

\* C9: for a malformed response the call resolves with a hint of the local
\* fallback, the reason is the parse-error or the invalid-coordinates one, and
\* the hint carries none of the response's message, colour, row or column.
C9_MalformedFallsBack ==
    (Resolved /\ response # NoResponse /\ Malformed(response)) =>
        /\ IsLocalHint(result.hint)
        /\ \/ result.error = Text("Invalid Coordinates in JSON")
           \/ (Len(result.error) = 2 /\ result.error[1] = Str("JSON Parse Error: "))
        /\ result.hint.message # <<response.message>>
        /\ result.hint.targetRow \notin {response.targetRow, ToNumber(response.targetRow)}
           \/ result.hint.targetRow = Undefined
        /\ result.hint.targetCol \notin {response.targetCol, ToNumber(response.targetCol)}
           \/ result.hint.targetCol = Undefined
        /\ result.hint.recommendedColor = Undefined
           \/ (/\ result.hint.recommendedColor # response.recommendedColor
               /\ response.recommendedColor.t = "string"
                    => result.hint.recommendedColor.s # LowerCased(response.recommendedColor.s))

\* C9 witness: a response with a message, a colour and a row but no column,
\* answered with the fallback's bomb target.
C9_Witness ==
    /\ Resolved
    /\ response.kind = "object"
    /\ response.message = Str("Fire at will")
    /\ response.recommendedColor = Str("Green")
    /\ response.targetRow = Num(3)
    /\ response.targetCol = Undefined
    /\ result.hint.message = Text("Fallback: TRIGGER BOMB!")
    /\ result.error = Text("Invalid Coordinates in JSON")

HasPowerUp(kind) == \E k \in 1..Len(validTargets) : validTargets[k].powerUp = kind

\* The hint names the cell of a candidate with the power-up kind.
TargetsPowerUp(h, kind) ==
    \E k \in 1..Len(validTargets) :
        /\ validTargets[k].powerUp = kind
        /\ h.targetRow = Num(validTargets[k].row)
        /\ h.targetCol = Num(validTargets[k].col)
        /\ h.recommendedColor = Str(validTargets[k].color)

\* C10: if the list holds a bomb candidate the local fallback targets a bomb
\* candidate's cell (and says so); otherwise, if it holds a rainbow candidate,
\* it targets a rainbow candidate's cell; whatever the other candidates, their
\* order and the engine's sort.
C10_BombThenRainbow ==
    pc = "localDone" =>
        /\ HasPowerUp("bomb") =>
              /\ TargetsPowerUp(result.hint, "bomb")
              /\ result.hint.message = Text("Fallback: TRIGGER BOMB!")
        /\ (~HasPowerUp("bomb") /\ HasPowerUp("rainbow")) =>
              /\ TargetsPowerUp(result.hint, "rainbow")
              /\ result.hint.message[1] = Str("Fallback: Select ")

\* C10 witness: the list bomb@row4, orange(size 2, row 2), red(size 6, row 8),
\* in some order, answered with the bomb's cell.
C10_Witness ==
    /\ pc = "localDone"
    /\ {validTargets[k] : k \in 1..Len(validTargets)} =
          { BombAt(4, 1), Cluster("orange", 2, 2, 2, "none"), Cluster("red", 6, 8, 4, "none") }
    /\ Len(validTargets) = 3
    /\ result.hint.targetRow = Num(4)
    /\ result.hint.targetCol = Num(1)

\* size * pointsPerBubble of a candidate.
Score(c) == c.size * c.pointsPerBubble

\* The hint names the cell and colour of candidate c.
Targets(h, c) ==
    /\ h.targetRow = Num(c.row)
    /\ h.targetCol = Num(c.col)
    /\ h.recommendedColor = Str(c.color)

\* c is best among the candidates of class kind: no candidate of the class
\* has a higher score, and none with the same score has a lower row.
BestOfClass(c, kind) ==
    /\ c.powerUp = kind
    /\ \A j \in 1..Len(validTargets) :
          validTargets[j].powerUp = kind =>
              /\ Score(validTargets[j]) <= Score(c)
              /\ Score(validTargets[j]) = Score(c) => c.row <= validTargets[j].row

TargetsBestOfClass(h, kind) ==
    \E k \in 1..Len(validTargets) :
        Targets(h, validTargets[k]) /\ BestOfClass(validTargets[k], kind)

\* C11: with no power-up in the list, the local fallback selects a candidate of
\* maximal size * pointsPerBubble and, among those, one of minimal row, for
\* every order of the list and every engine's sort.
C11_BestScoreThenRow ==
    (pc = "localDone" /\ Len(validTargets) > 0
       /\ ~HasPowerUp("bomb") /\ ~HasPowerUp("rainbow"))
    => TargetsBestOfClass(result.hint, "none")

\* C11 witness: orange (size 2, row 2) and yellow (size 4, row 1) tie on 1000
\* points, red (size 6) has 600; the yellow cluster's cell is chosen.
C11_Witness ==
    /\ pc = "localDone"
    /\ {validTargets[k] : k \in 1..Len(validTargets)} =
          { Cluster("orange", 2, 2, 2, "none"), Cluster("yellow", 4, 1, 6, "none"),
            Cluster("red", 6, 8, 4, "none") }
    /\ result.hint.targetRow = Num(1)
    /\ result.hint.targetCol = Num(6)
    /\ result.hint.recommendedColor = Str("yellow")

\* C12: when several candidates share the highest power-up class present
\* (bombs, or rainbows with no bomb), the local fallback picks among them the
\* one with the highest size * pointsPerBubble, ties broken by the lowest row,
\* whatever the order of the list.
C12_BestWithinClass ==
    pc = "localDone" =>
        /\ HasPowerUp("bomb") => TargetsBestOfClass(result.hint, "bomb")
        /\ (~HasPowerUp("bomb") /\ HasPowerUp("rainbow"))
              => TargetsBestOfClass(result.hint, "rainbow")

\* The message each fallback path passes, told by the reason it records.
PathMessage ==
    IF result.error = Text("Invalid Coordinates in JSON")
    THEN "AI returned invalid coordinates"
    ELSE IF Len(result.error) = 2 /\ result.error[1] = Str("JSON Parse Error: ")
    THEN "AI response parse error"
    ELSE IF Len(result.error) = 2 /\ result.error[2] = Str(": Service Unavailable")
    THEN IF isOverloaded(errs[Len(errs)]) THEN "Service Busy: Using Local Strategy"
         ELSE "Offline Mode: Quota Exceeded"
    ELSE "AI Service Unreachable"

NoTarget(h) ==
    /\ h.targetRow = Undefined
    /\ h.targetCol = Undefined
    /\ h.recommendedColor = Undefined

EmptyListFallback == Resolved /\ validTargets = <<>> /\ result.error # NoText

\* C13 as stated: with an empty candidate list every fallback path returns the
\* generic "play defensively" hint, with no row, column or colour.
C13_EmptyListDefaultHint ==
    EmptyListFallback =>
        /\ result.hint.message = Text(DefaultMsg)
        /\ NoTarget(result.hint)

\* C13 amended: with an empty candidate list every fallback path returns a hint
\* with no row, column or colour and the rationale "No valid clusters found to
\* target."; its message is the one of the path taken (quota, overload,
\* exhausted retries, parse error, invalid coordinates), never the "play
\* defensively" default.
C13_EmptyListPathHint ==
    EmptyListFallback =>
        /\ result.hint.message = Text(PathMessage)
        /\ result.hint.message # Text(DefaultMsg)
        /\ result.hint.rationale = Str("No valid clusters found to target.")
        /\ NoTarget(result.hint)

\* C13 witness: a quota failure with an empty list.
C13_Witness ==
    /\ EmptyListFallback
    /\ errs # <<>>
    /\ errs[Len(errs)] \in QuotaErrors
    /\ result.hint.message = Text("Offline Mode: Quota Exceeded")
    /\ NoTarget(result.hint)

(***************************************************************************)
(* The game component: configuration.                                      *)
(***************************************************************************)
MAX_DRAG_DIST == 180

\* A release launches when the stretch exceeds this many pixels.
LaunchStretch == 30

DifficultyLevels == {"Easy", "Medium", "Hard"}

dropInterval(level) ==
    CASE level = "Easy" -> 8 [] level = "Medium" -> 6 [] level = "Hard" -> 4

aiFrequency(level) ==
    CASE level = "Easy" -> 1 [] level = "Medium" -> 1 [] level = "Hard" -> 2

\* Settled shots per game the model follows.
MaxShots == 4

\* Pending 2000 ms capture timers the model follows.
MaxTimers == 2

\* Scheduled plus outstanding advisor analyses the model follows.
MaxPending == 2

\* Pointer or hand distances from the anchor, in pixels: one below the launch
\* stretch, one beyond MAX_DRAG_DIST.
DragDistances == {20, 200}

\* Distances from the anchor at which a tick can find a flying ball.
FlightDistances == {10, 300}

Min(a, b) == IF a < b THEN a ELSE b

\* The flags and the selected colour recorded when a launch is performed
\* (isFlying.current = true, flightStartTime.current = performance.now(),
\* ballVel.current = ...).
LaunchRecord(by) ==
    [flying |-> isFlying, thinking |-> isAiThinkingRef, by |-> by,
     color |-> selectedColorRef]

(***************************************************************************)
(* The game component: initGrid and the timers.                            *)
(***************************************************************************)
InitGame ==
    /\ GameIdle
    /\ BoardIdle
    /\ validTargets = <<>>
    /\ pc = "idle"
    /\ i = 0
    /\ delay = InitialDelay
    /\ attempts = 0
    /\ waits = <<>>
    /\ errs = <<>>
    /\ response = NoResponse
    /\ result = NoResult

\* initGrid(width, level): a new board, the counters and the Game-Over flag
\* reset, and a 2000 ms timer that will request a capture.
initGrid(level) ==
    /\ captureTimers < MaxTimers
    /\ shotsUntilDropRef' = dropInterval(level)
    /\ totalShotsRef' = 0
    /\ gameOverRef' = FALSE
    /\ difficultyRef' = level
    /\ captureTimers' = captureTimers + 1

\* updateDimensions, run by the effect before initGrid.
updateDimensions ==
    ballDist' = IF ~isFlying /\ ~isPinching /\ ~isMouseDragging THEN 0 ELSE ballDist

\* The effect on [appState] after setAppState(next): updateDimensions and
\* initGrid(logicalWidth.current, 'Medium').
EnterAppState(from, next) ==
    /\ appState = from
    /\ appState' = next
    /\ updateDimensions
    /\ initGrid("Medium")
    /\ UNCHANGED <<isFlying, isPinching, isMouseDragging, isAiThinkingRef,
                   captureRequestRef, analysisTimers, outstanding, lastLaunch,
                   flightAge, ballVel, flightTimedOut>>
    /\ UNCHANGED advisorVars
    /\ UNCHANGED boardVars

\* handleSystemStart succeeds.
SystemStart == EnterAppState("BOOT", "HAND_SCAN")

\* onResults in HAND_SCAN after 60 scanned frames, owner registered or verified.
HandVerified == EnterAppState("HAND_SCAN", "VOICE_VERIFY")

\* The 1500 ms timer set by recorder.onstop after the voice check.
VoiceConfirmed == EnterAppState("VOICE_VERIFY", "GAME_LOBBY")

\* restartGame (the Try Again button of the Game-Over overlay).
restartGame ==
    /\ gameOverRef
    /\ initGrid(difficultyRef)
    /\ UNCHANGED <<appState, isFlying, isPinching, isMouseDragging, isAiThinkingRef,
                   captureRequestRef, ballDist, analysisTimers, outstanding, lastLaunch,
                   flightAge, ballVel, flightTimedOut>>
    /\ UNCHANGED advisorVars
    /\ UNCHANGED boardVars

\* handleDifficultyChange(newDiff) (the buttons of the HUD, shown while PLAYING).
handleDifficultyChange ==
    /\ appState = "PLAYING"
    /\ \E newDiff \in DifficultyLevels : initGrid(newDiff)
    /\ UNCHANGED <<appState, isFlying, isPinching, isMouseDragging, isAiThinkingRef,
                   captureRequestRef, ballDist, analysisTimers, outstanding, lastLaunch,
                   flightAge, ballVel, flightTimedOut>>
    /\ UNCHANGED advisorVars
    /\ UNCHANGED boardVars

\* The timer set by initGrid fires: captureRequestRef.current = true.
CaptureTimerFires ==
    /\ captureTimers > 0
    /\ captureTimers' = captureTimers - 1
    /\ captureRequestRef' = TRUE
    /\ UNCHANGED <<appState, isFlying, isPinching, isMouseDragging, isAiThinkingRef,
                   gameOverRef, ballDist, difficultyRef, totalShotsRef, shotsUntilDropRef,
                   analysisTimers, outstanding, lastLaunch,
                   flightAge, ballVel, flightTimedOut>>
    /\ UNCHANGED advisorVars
    /\ UNCHANGED boardVars

\* performAiAnalysis(screenshot), started by the 0 ms timer of the tick: the
\* thinking flag is set and getStrategicHint is called.
performAiAnalysis ==
    /\ analysisTimers > 0
    /\ analysisTimers' = analysisTimers - 1
    /\ isAiThinkingRef' = TRUE
    /\ outstanding' = outstanding + 1
    /\ UNCHANGED <<appState, isFlying, isPinching, isMouseDragging, captureRequestRef,
                   gameOverRef, ballDist, difficultyRef, totalShotsRef, shotsUntilDropRef,
                   captureTimers, lastLaunch,
                   flightAge, ballVel, flightTimedOut>>
    /\ UNCHANGED advisorVars
    /\ UNCHANGED boardVars

\* The .then callback of getStrategicHint: the hint is shown and the thinking
\* flag cleared.
AdvisorResponds ==
    /\ outstanding > 0
    /\ outstanding' = outstanding - 1
    /\ isAiThinkingRef' = FALSE
    /\ UNCHANGED <<appState, isFlying, isPinching, isMouseDragging, captureRequestRef,
                   gameOverRef, ballDist, difficultyRef, totalShotsRef, shotsUntilDropRef,
                   captureTimers, analysisTimers, lastLaunch,
                   flightAge, ballVel, flightTimedOut>>
    /\ UNCHANGED advisorVars
    /\ UNCHANGED boardVars

(***************************************************************************)
(* The game component: the mouse and touch handlers.                       *)
(***************************************************************************)
\* handleStart(clientX, clientY); near: the pointer is within three bubble
\* radii of the ball.
handleStart ==
    /\ \E near \in BOOLEAN :
        isMouseDragging' =
            IF isFlying \/ isAiThinkingRef \/ gameOverRef \/ appState # "PLAYING"
            THEN isMouseDragging
            ELSE IF near THEN TRUE ELSE isMouseDragging
    /\ UNCHANGED <<appState, isFlying, isPinching, isAiThinkingRef, captureRequestRef,
                   gameOverRef, ballDist, difficultyRef, totalShotsRef, shotsUntilDropRef,
                   captureTimers, analysisTimers, outstanding, lastLaunch,
                   flightAge, ballVel, flightTimedOut>>
    /\ UNCHANGED advisorVars
    /\ UNCHANGED boardVars

\* handleMove(clientX, clientY); dragDist: the pointer's distance from the anchor.
handleMoveTo(dragDist) ==
    /\ ballDist' =
            IF ~isMouseDragging \/ gameOverRef THEN ballDist
            ELSE IF dragDist > MAX_DRAG_DIST THEN MAX_DRAG_DIST ELSE dragDist
    /\ flightTimedOut' = (flightTimedOut /\ (~isMouseDragging \/ gameOverRef))
    /\ UNCHANGED <<appState, isFlying, isPinching, isMouseDragging, isAiThinkingRef,
                   captureRequestRef, gameOverRef, difficultyRef, totalShotsRef,
                   shotsUntilDropRef, captureTimers, analysisTimers, outstanding,
                   lastLaunch, flightAge, ballVel>>
    /\ UNCHANGED advisorVars
    /\ UNCHANGED boardVars

handleMove == \E dragDist \in DragDistances : handleMoveTo(dragDist)

\* handleEnd(): the release of the mouse or of the touch.
handleEnd ==
    /\ IF ~isMouseDragging \/ gameOverRef
       THEN UNCHANGED <<isMouseDragging, isFlying, lastLaunch, flightAge, ballVel,
                        flightTimedOut>>
       ELSE /\ isMouseDragging' = FALSE
            /\ flightTimedOut' = FALSE
            /\ IF ballDist > LaunchStretch
               THEN /\ isFlying' = TRUE
                    /\ flightAge' = 0
                    /\ ballVel' = "moving"
                    /\ lastLaunch' = LaunchRecord("mouse")
               ELSE UNCHANGED <<isFlying, lastLaunch, flightAge, ballVel>>
    /\ UNCHANGED <<appState, isPinching, isAiThinkingRef, captureRequestRef, gameOverRef,
                   ballDist, difficultyRef, totalShotsRef, shotsUntilDropRef,
                   captureTimers, analysisTimers, outstanding>>
    /\ UNCHANGED advisorVars
    /\ UNCHANGED boardVars

(***************************************************************************)
(* The game component: one frame of onResults in the gameplay phase.       *)
(***************************************************************************)
\* A pinch block that goes on after the game has ended.
PinchStepAfterEnd(pinchNow, near, handDist) ==
    LET same == [pinching |-> isPinching, flying |-> isFlying, ball |-> ballDist,
                 vel |-> ballVel, launched |-> FALSE]
    IN  IF isMouseDragging THEN same
        ELSE IF pinchNow /\ ~isFlying
        THEN [same EXCEPT !.pinching = isPinching \/ near,
                          !.ball = IF isPinching \/ near
                                   THEN Min(handDist, MAX_DRAG_DIST) ELSE ballDist]
        ELSE IF isPinching /\ ballDist > LaunchStretch
        THEN [same EXCEPT !.pinching = FALSE, !.flying = TRUE,
                          !.vel = "moving", !.launched = TRUE]
        ELSE [same EXCEPT !.pinching = FALSE]

\* The pinch block.  pinchNow: a tracked hand with pinchDist < PINCH_THRESHOLD;
\* near: distToBall < 120; handDist: the hand's distance from the anchor.
PinchStep(pinchNow, near, handDist) ==
    LET same == [pinching |-> isPinching, flying |-> isFlying, ball |-> ballDist,
                 vel |-> ballVel, launched |-> FALSE]
    IN  IF isMouseDragging \/ gameOverRef THEN same
        ELSE IF ~isAiThinkingRef /\ pinchNow /\ ~isFlying
        THEN LET pin == isPinching \/ near
             IN  [same EXCEPT !.pinching = pin,
                              !.ball = IF pin THEN Min(handDist, MAX_DRAG_DIST) ELSE ballDist]
        ELSE IF isPinching /\ (~pinchNow \/ isAiThinkingRef)
        THEN IF isAiThinkingRef THEN [same EXCEPT !.pinching = FALSE, !.ball = 0]
             ELSE IF ballDist > LaunchStretch
                  THEN [same EXCEPT !.pinching = FALSE, !.flying = TRUE,
                                    !.vel = "moving", !.launched = TRUE]
                  ELSE [same EXCEPT !.pinching = FALSE, !.ball = 0]
        ELSE same

\* The ball springs back to the anchor: 15 % of the way each frame.
SpringStep(p) ==
    IF ~p.flying /\ ~p.pinching /\ ~isMouseDragging
    THEN [p EXCEPT !.ball = (p.ball * 85) \div 100]
    ELSE p

\* What the physics update can find: no flight, the 5000 ms limit passed, the
\* ball still in the air, a bomb touched, a collision, the ball below the field.
FlightOutcomes == {"none", "timeout", "fly", "bomb", "settle", "out"}

\* The time between two frames, in ms.
FrameTimes == {2500, 3000}

\* performance.now() - flightStartTime.current in a frame that starts dt ms
\* after the latest launch or frame.
AgeAfter(dt) == Min(PastLimit, flightAge + dt)

\* A limit read as seconds.
FlightExpiredSeconds(age) == age > FlightLimit * 1000

\* performance.now() - flightStartTime.current > 5000
FlightExpired(age) == age > FlightLimit

\* What the physics update finds for a ball of the age: past the limit the
\* flight ends, whatever the ball would have met.
PossibleOutcomes(p, age) ==
    IF ~p.flying THEN {"none"}
    ELSE IF FlightExpired(age) THEN {"timeout"}
    ELSE {o \in FlightOutcomes :
            /\ o \notin {"none", "timeout"}
            /\ o = "settle" => totalShotsRef < MaxShots}

\* The physics update; dist: where a ball still in the air is; over: the new
\* bubble's row, or the lowest row after a ceiling drop, reaches MAX_ROWS_LIMIT.
PhysicsStep(p, o, dist, over) ==
    LET newTotal == totalShotsRef + 1
        nextDrop == shotsUntilDropRef - 1
        q == [flying |-> p.flying, pinching |-> p.pinching, ball |-> p.ball,
              vel |-> p.vel,
              total |-> totalShotsRef, drop |-> shotsUntilDropRef,
              gameOver |-> gameOverRef, capture |-> captureRequestRef,
              returned |-> FALSE]
    IN  CASE o = "none" -> q
          [] o = "fly" -> [q EXCEPT !.ball = dist]
          [] o \in {"timeout", "out"} ->
                [q EXCEPT !.flying = FALSE, !.ball = 0, !.vel = "zero"]
          [] o = "bomb" ->
                [q EXCEPT !.flying = FALSE, !.ball = 0, !.vel = "zero", !.returned = TRUE]
          [] o = "settle" ->
                [q EXCEPT !.flying = FALSE, !.ball = 0, !.vel = "zero",
                          !.total = newTotal,
                          !.drop = IF nextDrop <= 0 THEN dropInterval(difficultyRef)
                                   ELSE nextDrop,
                          !.gameOver = gameOverRef \/ over,
                          !.capture = captureRequestRef
                                        \/ newTotal % aiFrequency(difficultyRef) = 0]

\* The frame: pinch block, spring-back, physics, capture consumption; a frame
\* in GAME_LOBBY also enters PLAYING, whose effect runs initGrid.
Tick ==
    /\ appState \in {"GAME_LOBBY", "PLAYING"}
    /\ \E pinchNow \in BOOLEAN, dt \in (IF isFlying THEN FrameTimes ELSE {0}) :
       \E near \in (IF pinchNow THEN BOOLEAN ELSE {FALSE}),
          handDist \in (IF pinchNow THEN DragDistances ELSE {0}) :
        LET p == SpringStep(PinchStep(pinchNow, near, handDist))
            age == IF p.launched THEN 0 ELSE AgeAfter(dt)
        IN  \E o \in PossibleOutcomes(p, age) :
            \E dist \in (IF o = "fly" THEN FlightDistances ELSE {0}),
               over \in (IF o = "settle" THEN BOOLEAN ELSE {FALSE}) :
             LET q == PhysicsStep(p, o, dist, over)
                 consume == q.capture /\ ~q.returned
             IN  /\ consume => analysisTimers + outstanding < MaxPending
                 /\ isPinching' = q.pinching
                 /\ isFlying' = q.flying
                 /\ flightAge' = IF q.flying THEN age ELSE PastLimit
                 /\ ballVel' = q.vel
                 /\ flightTimedOut' = (o = "timeout")
                 /\ lastLaunch' = IF p.launched THEN LaunchRecord("pinch") ELSE lastLaunch
                 /\ captureRequestRef' = (q.capture /\ ~consume)
                 /\ analysisTimers' = IF consume THEN analysisTimers + 1 ELSE analysisTimers
                 /\ IF appState = "GAME_LOBBY"
                    THEN /\ appState' = "PLAYING"
                         /\ ballDist' = IF ~q.flying /\ ~q.pinching /\ ~isMouseDragging
                                        THEN 0 ELSE q.ball
                         /\ initGrid("Medium")
                    ELSE /\ ballDist' = q.ball
                         /\ totalShotsRef' = q.total
                         /\ shotsUntilDropRef' = q.drop
                         /\ gameOverRef' = q.gameOver
                         /\ UNCHANGED <<appState, difficultyRef, captureTimers>>
    /\ UNCHANGED <<isMouseDragging, isAiThinkingRef, outstanding>>
    /\ UNCHANGED advisorVars
    /\ UNCHANGED boardVars

NextGame ==
    \/ SystemStart
    \/ HandVerified
    \/ VoiceConfirmed
    \/ Tick
    \/ handleStart
    \/ handleMove
    \/ handleEnd
    \/ CaptureTimerFires
    \/ performAiAnalysis
    \/ AdvisorResponds
    \/ restartGame
    \/ handleDifficultyChange

SpecGame == InitGame /\ [][NextGame]_vars

\* The component while the difficulty stays the one it starts with: every
\* handler but the difficulty buttons, which leave the flight alone.
NextFlight ==
    \/ SystemStart
    \/ HandVerified
    \/ VoiceConfirmed
    \/ Tick
    \/ handleStart
    \/ handleMove
    \/ handleEnd
    \/ CaptureTimerFires
    \/ performAiAnalysis
    \/ AdvisorResponds
    \/ restartGame

SpecFlight == InitGame /\ [][NextFlight]_vars

(***************************************************************************)
(* Properties of the game component.                                       *)
(***************************************************************************)
\* C2: at most one advisor request is outstanding at any time, that is,
\* performAiAnalysis is never started while a previously started one has not
\* yet delivered its response.
C2_AtMostOneOutstanding == outstanding <= 1

\* C3: no projectile is launched while the thinking flag is set, neither by
\* the mouse/touch path nor by the pinch path.
C3_NoLaunchWhileThinking == ~lastLaunch.thinking

\* C4: a launch is never performed while the flight flag is already set.
C4_NoLaunchWhileFlying == ~lastLaunch.flying

\* C24: no projectile stays in flight for more than 5 seconds after the
\* release that launched it: no frame ends with the flight flag set and more
\* than 5000 ms elapsed since the launch, and the frame whose physics update
\* finds the limit passed clears the flight flag, puts the ball back on the
\* anchor and zeroes the velocity.
C24_FlightEndsAtLimit ==
    /\ isFlying => flightAge <= FlightLimit
    /\ flightTimedOut => (~isFlying /\ ballDist = 0 /\ ballVel = "zero")

\* C24 witness: a frame found a ball in flight past the limit and ended the
\* flight.
C24_Witness ==
    /\ flightTimedOut
    /\ flightAge > FlightLimit
    /\ ~isFlying
    /\ ballDist = 0
    /\ ballVel = "zero"

\* C34: a settled shot sets the capture-requested flag exactly when the new
\* total of settled shots is a multiple of the difficulty's advisor frequency,
\* and every gameplay frame that finds the flag set, or sets it, clears it
\* and schedules exactly one analysis: no gameplay frame ends with the flag
\* set.
C34_CaptureConsumedEachTick ==
    [][Tick =>
          LET settled == appState = "PLAYING" /\ totalShotsRef' = totalShotsRef + 1
              requested == \/ captureRequestRef
                           \/ /\ settled
                              /\ totalShotsRef' % aiFrequency(difficultyRef) = 0
          IN  /\ ~captureRequestRef'
              /\ analysisTimers' = analysisTimers + (IF requested THEN 1 ELSE 0)]_vars

(***************************************************************************)
(* The board: geometry.  Lengths are in units of 1/50 pixel, so that the   *)
(* sample points of the line-of-sight check are integers; ROW_HEIGHT,      *)
(* BUBBLE_RADIUS * sqrt(3) = 38.105 px, is 1905 units.                      *)
(***************************************************************************)
UnitsPerPixel == 50

BUBBLE_RADIUS == 22 * UnitsPerPixel

ROW_HEIGHT == 1905

GRID_COLS == 12

SLINGSHOT_BOTTOM_OFFSET == 220 * UnitsPerPixel

\* container.clientWidth and container.clientHeight of the model's container.
logicalWidth == 528 * UnitsPerPixel

logicalHeight == 700 * UnitsPerPixel

getBubblePos(row, col) ==
    LET xOffset == (logicalWidth - (GRID_COLS * BUBBLE_RADIUS * 2)) \div 2 + BUBBLE_RADIUS
    IN  [x |-> xOffset + col * (BUBBLE_RADIUS * 2) + (IF row % 2 # 0 THEN BUBBLE_RADIUS ELSE 0),
         y |-> BUBBLE_RADIUS + row * ROW_HEIGHT]

anchorPos == [x |-> logicalWidth \div 2, y |-> logicalHeight - SLINGSHOT_BOTTOM_OFFSET]

\* A bubble as createBubble and the grid-snap build it: x and y are stored, and
\* are those of getBubblePos(row, col) when the bubble is made.
Bubble(id, row, col, color, active, powerUp) ==
    [id |-> id, row |-> row, col |-> col,
     x |-> getBubblePos(row, col).x, y |-> getBubblePos(row, col).y,
     color |-> color, active |-> active, powerUp |-> powerUp]

\* The stored position, which is what isNeighbor, triggerBomb, isPathClear and
\* the collision test read.
PosOf(b) == [x |-> b.x, y |-> b.y]

DistSq(p, q) == (p.x - q.x) * (p.x - q.x) + (p.y - q.y) * (p.y - q.y)

\* A neighbour test that reaches two diameters.
isNeighborWide(b1, b2) ==
    LET reach == BUBBLE_RADIUS * 4
    IN  DistSq(PosOf(b1), PosOf(b2)) < reach * reach

\* dist < BUBBLE_RADIUS * 2.2
isNeighbor(b1, b2) ==
    LET reach == (BUBBLE_RADIUS * 22) \div 10
    IN  DistSq(PosOf(b1), PosOf(b2)) < reach * reach

Ids(seq) == {seq[k].id : k \in 1..Len(seq)}

(***************************************************************************)
(* The board: checkMatches and triggerBomb.                                *)
(***************************************************************************)
\* The while loop of checkMatches: toCheck is the stack, matches the list.
RECURSIVE MatchWalk(_, _, _, _, _)
MatchWalk(board, targetColor, toCheck, visited, matches) ==
    IF toCheck = <<>> THEN matches
    ELSE LET current == toCheck[Len(toCheck)]
             rest == SubSeq(toCheck, 1, Len(toCheck) - 1)
         IN  IF current.id \in visited
             THEN MatchWalk(board, targetColor, rest, visited, matches)
             ELSE LET seen == visited \cup {current.id}
                      IsNew(b) == b.active /\ b.id \notin seen /\ isNeighbor(current, b)
                  IN  IF current.color = targetColor \/ current.powerUp = "rainbow"
                      THEN MatchWalk(board, targetColor, rest \o SelectSeq(board, IsNew),
                                     seen, Append(matches, current))
                      ELSE MatchWalk(board, targetColor, rest, seen, matches)

\* The matches checkMatches(startBubble) finds on the board.
MatchesOf(board, startBubble) ==
    MatchWalk(board, startBubble.color, <<startBubble>>, {}, <<>>)

\* A score without the multiplier.
MatchPointsFlat(n, color) == n * Points(color)

\* Math.floor(points * multiplier) for a match of n bubbles.
MatchPoints(n, color) ==
    LET points == n * Points(color)
    IN  IF n > 3 THEN (points * 3) \div 2 ELSE points

Deactivate(board, ids) ==
    [k \in 1..Len(board) |->
        IF board[k].id \in ids THEN [board[k] EXCEPT !.active = FALSE] ELSE board[k]]

\* A match check that pops pairs as well.
checkMatchesPairs(board, score, startBubble) ==
    LET matches == MatchesOf(board, startBubble)
    IN  IF Len(matches) >= 2
        THEN [bubbles |-> Deactivate(board, Ids(matches)),
              score |-> score + MatchPoints(Len(matches), startBubble.color),
              matched |-> TRUE]
        ELSE [bubbles |-> board, score |-> score, matched |-> FALSE]

\* checkMatches(startBubble) on the board that already holds startBubble.
checkMatches(board, score, startBubble) ==
    LET matches == MatchesOf(board, startBubble)
    IN  IF Len(matches) >= 3
        THEN [bubbles |-> Deactivate(board, Ids(matches)),
              score |-> score + MatchPoints(Len(matches), startBubble.color),
              matched |-> TRUE]
        ELSE [bubbles |-> board, score |-> score, matched |-> FALSE]

\* const explosionRadius = BUBBLE_RADIUS * 3.5
explosionRadius == (BUBBLE_RADIUS * 7) \div 2

\* An explosion that spares the other power-up bubbles.
InExplosionSparingPowerUps(b, bomb) ==
    /\ DistSq(PosOf(b), PosOf(bomb)) <= explosionRadius * explosionRadius
    /\ (b.powerUp = "none" \/ b.id = bomb.id)

\* dist <= explosionRadius
InExplosion(b, bomb) ==
    DistSq(PosOf(b), PosOf(bomb)) <= explosionRadius * explosionRadius

\* triggerBomb(bomb)
triggerBomb(board, score, bomb) ==
    LET Hit(b) == b.active /\ InExplosion(b, bomb)
        destroyed == SelectSeq(board, Hit)
    IN  [bubbles |-> Deactivate(board, Ids(destroyed)),
         score |-> score + Len(destroyed) * 50]

(***************************************************************************)
(* The board: isPathClear and getAllReachableClusters.                     *)
(***************************************************************************)
\* Math.ceil(distance / (BUBBLE_RADIUS / 2)) for the squared distance: the
\* least n with n * BUBBLE_RADIUS / 2 >= distance.
RECURSIVE StepsFrom(_, _)
StepsFrom(n, distSq) ==
    LET reach == n * (BUBBLE_RADIUS \div 2)
    IN  IF reach * reach >= distSq THEN n ELSE StepsFrom(n + 1, distSq)

\* The sample point of index idx of the segment from the anchor to the target.
SamplePoint(target, idx, steps) ==
    LET end == PosOf(target)
    IN  [x |-> anchorPos.x + ((end.x - anchorPos.x) * idx) \div steps,
         y |-> anchorPos.y + ((end.y - anchorPos.y) * idx) \div steps]

\* An obstacle test that popped bubbles pass as well.
ObstructsPopped(b, target, point) ==
    LET reach == (BUBBLE_RADIUS * 18) \div 10
    IN  /\ b.id # target.id
        /\ DistSq(point, PosOf(b)) < reach * reach

\* distSq < Math.pow(BUBBLE_RADIUS * 1.8, 2) for an active bubble other than the target
Obstructs(b, target, point) ==
    LET reach == (BUBBLE_RADIUS * 18) \div 10
    IN  /\ b.active
        /\ b.id # target.id
        /\ DistSq(point, PosOf(b)) < reach * reach

\* isPathClear(target) on the board: the samples 1 .. steps - 3 are tested.
isPathClear(board, target) ==
    LET steps == StepsFrom(0, DistSq(anchorPos, PosOf(target)))
    IN  \A idx \in 1..(steps - 3) :
            \A k \in 1..Len(board) :
                ~Obstructs(board[k], target, SamplePoint(target, idx, steps))

\* Array.from(new Set(activeBubbles.map(b => b.color))): first occurrences, in order.
RECURSIVE UniqueColors(_, _)
UniqueColors(active, seen) ==
    IF active = <<>> THEN <<>>
    ELSE IF active[1].color \in seen THEN UniqueColors(Tail(active), seen)
    ELSE <<active[1].color>> \o UniqueColors(Tail(active), seen \cup {active[1].color})

\* The while loop over the queue: curr is shifted, joins the members, and its
\* unvisited neighbours of the colour, or rainbow, are visited and queued.
RECURSIVE ClusterWalk(_, _, _, _, _, _)
ClusterWalk(active, color, queue, visited, members, hasRainbow) ==
    IF queue = <<>>
    THEN [members |-> members, visited |-> visited, hasRainbow |-> hasRainbow]
    ELSE LET curr == Head(queue)
             Joins(n) == /\ n.id \notin visited
                         /\ (n.color = color \/ n.powerUp = "rainbow")
                         /\ isNeighbor(curr, n)
             neighbors == SelectSeq(active, Joins)
         IN  ClusterWalk(active, color, Tail(queue) \o neighbors,
                         visited \cup Ids(neighbors), Append(members, curr),
                         hasRainbow \/ \E k \in 1..Len(neighbors) :
                                           neighbors[k].powerUp = "rainbow")

\* clusterMembers.sort((a, b) => b.y - a.y): by y descending, equal y in the
\* order found (the comparator is consistent and the sort stable).
RECURSIVE SortByYDescending(_)
SortByYDescending(members) ==
    IF members = <<>> THEN <<>>
    ELSE LET last == members[Len(members)]
             sorted == SortByYDescending(SubSeq(members, 1, Len(members) - 1))
             Before(m) == PosOf(m).y >= PosOf(last).y
             After(m) == PosOf(m).y < PosOf(last).y
         IN  SelectSeq(sorted, Before) \o <<last>> \o SelectSeq(sorted, After)

\* A find that takes the first member whatever its path.
FindHittableFirst(board, members) ==
    IF members = <<>> THEN <<>> ELSE <<members[1]>>

\* clusterMembers.find(m => isPathClear(m)), as a sequence of at most one member.
RECURSIVE FindHittable(_, _)
FindHittable(board, members) ==
    IF members = <<>> THEN <<>>
    ELSE IF isPathClear(board, members[1]) THEN <<members[1]>>
    ELSE FindHittable(board, Tail(members))

\* The for loop over activeBubbles for one colour, from index k on.
RECURSIVE ScanBubbles(_, _, _, _, _, _)
ScanBubbles(board, active, color, k, visited, out) ==
    IF k > Len(active) THEN out
    ELSE LET b == active[k]
         IN  IF b.powerUp = "bomb" /\ b.id \notin visited
             THEN IF isPathClear(board, b)
                  THEN ScanBubbles(board, active, color, k + 1, visited \cup {b.id},
                                   Append(out, BombAt(b.row, b.col)))
                  ELSE ScanBubbles(board, active, color, k + 1, visited, out)
             ELSE IF b.color # color \/ b.id \in visited
             THEN ScanBubbles(board, active, color, k + 1, visited, out)
             ELSE LET walk == ClusterWalk(active, color, <<b>>, visited \cup {b.id},
                                          <<>>, FALSE)
                      hittable == FindHittable(board, SortByYDescending(walk.members))
                  IN  ScanBubbles(board, active, color, k + 1, walk.visited,
                          IF hittable = <<>> THEN out
                          ELSE Append(out,
                                  Cluster(color, Len(walk.members), hittable[1].row,
                                          hittable[1].col,
                                          IF walk.hasRainbow THEN "rainbow" ELSE "none")))

\* The for loop over uniqueColors.
RECURSIVE ScanColors(_, _, _, _)
ScanColors(board, active, colors, out) ==
    IF colors = <<>> THEN out
    ELSE ScanColors(board, active, Tail(colors),
                    ScanBubbles(board, active, colors[1], 1, {}, out))

\* getAllReachableClusters() on the board.
getAllReachableClusters(board) ==
    LET IsActive(b) == b.active
        activeBubbles == SelectSeq(board, IsActive)
    IN  ScanColors(board, activeBubbles, UniqueColors(activeBubbles, {}), <<>>)

(***************************************************************************)
(* The board on its own: one settled shot, one bomb or one enumeration,    *)
(* from bounded boards.                                                    *)
(***************************************************************************)
\* The bubbles the boards are drawn from, around the column above the anchor:
\* reds at (0,5), (0,6) and (1,5); a rainbow storing blue at (1,5); a bomb
\* storing red at (1,6), with a red at (1,7) on its other side; a blue at
\* (1,4); a popped red at (2,5); a plain red at (1,6).
BubblePool ==
    { Bubble(1, 0, 5, "red", TRUE, "none"),
      Bubble(2, 0, 6, "red", TRUE, "none"),
      Bubble(3, 1, 5, "red", TRUE, "none"),
      Bubble(4, 1, 5, "blue", TRUE, "rainbow"),
      Bubble(5, 1, 6, "red", TRUE, "bomb"),
      Bubble(6, 1, 7, "red", TRUE, "none"),
      Bubble(7, 1, 4, "blue", TRUE, "none"),
      Bubble(8, 2, 5, "red", FALSE, "none"),
      Bubble(9, 1, 6, "red", TRUE, "none") }

\* Most bubbles on a board before the shot.
MaxBubbles == 3

SameCell(a, b) == a.row = b.row /\ a.col = b.col

\* Every bubble has its own id and no two active bubbles share a cell.
WellFormed(board) ==
    \A j, k \in 1..Len(board) :
        j # k => /\ board[j].id # board[k].id
                 /\ (board[j].active /\ board[k].active) => ~SameCell(board[j], board[k])

Boards == {b \in SeqsUpTo(BubblePool, MaxBubbles) : WellFormed(b)}

\* The cells a shot can settle in, and the colours it can have.
SettleCells == {<<2, 5>>, <<2, 6>>, <<1, 6>>, <<1, 4>>}

ShotColors == {"red", "blue"}

\* The id of the bubble a shot leaves.
ShotId == 0

Occupied(board, row, col) ==
    \E k \in 1..Len(board) : board[k].active /\ board[k].row = row /\ board[k].col = col

InitBoard ==
    /\ bubbles \in Boards
    /\ scoreRef = 0
    /\ prevBubbles = <<>>
    /\ prevScore = 0
    /\ ColorIdle
    /\ lastOp = NoOp
    /\ validTargets = <<>>
    /\ pc = "board"
    /\ i = 0
    /\ delay = InitialDelay
    /\ attempts = 0
    /\ waits = <<>>
    /\ errs = <<>>
    /\ response = NoResponse
    /\ result = NoResult
    /\ GameIdle

\* The collision branch of the physics update, as far as the board goes: the
\* new bubble is pushed at the unoccupied cell found and checkMatches runs.
SettleShot ==
    /\ pc = "board"
    /\ \E cell \in SettleCells, color \in ShotColors :
          LET newBubble == Bubble(ShotId, cell[1], cell[2], color, TRUE, "none")
              pushed == Append(bubbles, newBubble)
              after == checkMatches(pushed, scoreRef, newBubble)
          IN  /\ ~Occupied(bubbles, cell[1], cell[2])
              /\ prevBubbles' = pushed
              /\ prevScore' = scoreRef
              /\ UNCHANGED colorVars
              /\ bubbles' = after.bubbles
              /\ scoreRef' = after.score
              /\ lastOp' = [kind |-> "settle", id |-> ShotId, matched |-> after.matched]
    /\ pc' = "settled"
    /\ UNCHANGED <<validTargets, i, delay, attempts, waits, errs, response, result>>
    /\ UNCHANGED gameVars

\* The bomb branch of the physics update: triggerBomb(b) for an active bomb.
BombHit ==
    /\ pc = "board"
    /\ \E k \in 1..Len(bubbles) :
          LET after == triggerBomb(bubbles, scoreRef, bubbles[k])
          IN  /\ bubbles[k].active
              /\ bubbles[k].powerUp = "bomb"
              /\ prevBubbles' = bubbles
              /\ prevScore' = scoreRef
              /\ UNCHANGED colorVars
              /\ bubbles' = after.bubbles
              /\ scoreRef' = after.score
              /\ lastOp' = [kind |-> "bomb", id |-> bubbles[k].id, matched |-> FALSE]
    /\ pc' = "exploded"
    /\ UNCHANGED <<validTargets, i, delay, attempts, waits, errs, response, result>>
    /\ UNCHANGED gameVars

\* const allClusters = getAllReachableClusters() of performAiAnalysis.
Enumerate ==
    /\ pc = "board"
    /\ validTargets' = getAllReachableClusters(bubbles)
    /\ pc' = "enumerated"
    /\ UNCHANGED <<i, delay, attempts, waits, errs, response, result>>
    /\ UNCHANGED gameVars
    /\ UNCHANGED boardVars

NextBoard == SettleShot \/ BombHit \/ Enumerate

SpecBoard == InitBoard /\ [][NextBoard]_vars

(***************************************************************************)
(* The grid: initGrid, the collision branch of the physics update with its *)
(* grid-snap, shot counters and ceiling drop, and addCeilingRow.           *)
(***************************************************************************)
MAX_ROWS_LIMIT == 11

\* DIFFICULTIES[level].rows
rows(level) == IF level = "Easy" THEN 3 ELSE IF level = "Medium" THEN 5 ELSE 6

\* const colsInRow = r % 2 !== 0 ? GRID_COLS - 1 : GRID_COLS
colsInRow(r) == IF r % 2 # 0 THEN GRID_COLS - 1 ELSE GRID_COLS

\* What Math.random() decides in initGrid and createBubble: which cells get a
\* bubble, and each bubble's colour and power-up.  "lane" fills column 5 with
\* alternating reds and blues and puts a yellow in the last cell of row 0;
\* "bombLane" leaves a red with a bomb below it at the foot of column 5, and
\* the yellow.
GridTemplates == {"lane", "bombLane"}

NoCell == [present |-> FALSE, color |-> "red", powerUp |-> "none"]

TemplateCell(template, level, r, c) ==
    IF r = 0 /\ c = GRID_COLS - 1
    THEN [present |-> TRUE, color |-> "yellow", powerUp |-> "none"]
    ELSE IF c # 5 THEN NoCell
    ELSE IF template = "lane"
    THEN [present |-> TRUE, color |-> IF r % 2 = 0 THEN "red" ELSE "blue",
          powerUp |-> "none"]
    ELSE IF r = rows(level) - 1
    THEN [present |-> TRUE, color |-> "green", powerUp |-> "bomb"]
    ELSE IF r = rows(level) - 2
    THEN [present |-> TRUE, color |-> "red", powerUp |-> "none"]
    ELSE NoCell

\* The newBubbles of initGrid(width, level): row by row, column by column.
initGridBubbles(level, template) ==
    LET cells == [k \in 1..(rows(level) * GRID_COLS) |->
                     <<(k - 1) \div GRID_COLS, (k - 1) % GRID_COLS>>]
        Kept(cell) == /\ cell[2] < colsInRow(cell[1])
                      /\ TemplateCell(template, level, cell[1], cell[2]).present
        kept == SelectSeq(cells, Kept)
    IN  [k \in 1..Len(kept) |->
            LET t == TemplateCell(template, level, kept[k][1], kept[k][2])
            IN  Bubble(k, kept[k][1], kept[k][2], t.color, TRUE, t.powerUp)]

\* The grids initGrid makes in the model, by level and template.
InitialGrids ==
    [level \in DifficultyLevels, template \in GridTemplates |->
        initGridBubbles(level, template)]

\* What Math.random() decides for the twelve bubbles of a new ceiling row.
RowPatterns == {"plain", "powerUps"}

PatternCell(pattern, c) ==
    IF pattern = "powerUps" /\ c = 5 THEN [color |-> "red", powerUp |-> "bomb"]
    ELSE IF pattern = "powerUps" /\ c = 6 THEN [color |-> "blue", powerUp |-> "rainbow"]
    ELSE [color |-> "yellow", powerUp |-> "none"]

\* A ceiling drop whose new row lacks its last bubble.
addCeilingRowShort(board, pattern) ==
    LET moved == [k \in 1..Len(board) |->
                     IF board[k].active
                     THEN [board[k] EXCEPT
                              !.row = board[k].row + 1,
                              !.x = getBubblePos(board[k].row + 1, board[k].col).x,
                              !.y = getBubblePos(board[k].row + 1, board[k].col).y]
                     ELSE board[k]]
        fresh == [c \in 1..(GRID_COLS - 1) |->
                     Bubble(Len(board) + c, 0, c - 1, PatternCell(pattern, c - 1).color,
                            TRUE, PatternCell(pattern, c - 1).powerUp)]
    IN  [bubbles |-> moved \o fresh,
         over |-> \E k \in 1..Len(moved) :
                     moved[k].active /\ moved[k].row >= MAX_ROWS_LIMIT]

\* A ceiling drop that ends the game one row later.
addCeilingRowLate(board, pattern) ==
    LET moved == [k \in 1..Len(board) |->
                     IF board[k].active
                     THEN [board[k] EXCEPT
                              !.row = board[k].row + 1,
                              !.x = getBubblePos(board[k].row + 1, board[k].col).x,
                              !.y = getBubblePos(board[k].row + 1, board[k].col).y]
                     ELSE board[k]]
        fresh == [c \in 1..GRID_COLS |->
                     Bubble(Len(board) + c, 0, c - 1, PatternCell(pattern, c - 1).color,
                            TRUE, PatternCell(pattern, c - 1).powerUp)]
    IN  [bubbles |-> moved \o fresh,
         over |-> \E k \in 1..Len(moved) :
                     moved[k].active /\ moved[k].row > MAX_ROWS_LIMIT]

\* A ceiling drop that leaves the stored positions as they were.
addCeilingRowStale(board, pattern) ==
    LET moved == [k \in 1..Len(board) |->
                     IF board[k].active
                     THEN [board[k] EXCEPT !.row = board[k].row + 1]
                     ELSE board[k]]
        fresh == [c \in 1..GRID_COLS |->
                     Bubble(Len(board) + c, 0, c - 1, PatternCell(pattern, c - 1).color,
                            TRUE, PatternCell(pattern, c - 1).powerUp)]
    IN  [bubbles |-> moved \o fresh,
         over |-> \E k \in 1..Len(moved) :
                     moved[k].active /\ moved[k].row >= MAX_ROWS_LIMIT]

\* addCeilingRow(): every active bubble goes down one row, its column kept
\* and its position recomputed; then createBubble(0, c) for c = 0..11.  over
\* is maxRow >= MAX_ROWS_LIMIT.
addCeilingRow(board, pattern) ==
    LET moved == [k \in 1..Len(board) |->
                     IF board[k].active
                     THEN [board[k] EXCEPT
                              !.row = board[k].row + 1,
                              !.x = getBubblePos(board[k].row + 1, board[k].col).x,
                              !.y = getBubblePos(board[k].row + 1, board[k].col).y]
                     ELSE board[k]]
        fresh == [c \in 1..GRID_COLS |->
                     Bubble(Len(board) + c, 0, c - 1, PatternCell(pattern, c - 1).color,
                            TRUE, PatternCell(pattern, c - 1).powerUp)]
    IN  [bubbles |-> moved \o fresh,
         over |-> \E k \in 1..Len(moved) :
                     moved[k].active /\ moved[k].row >= MAX_ROWS_LIMIT]

\* The cells that hold an active bubble.
ActiveCells(board) ==
    {<<board[k].row, board[k].col>> : k \in {j \in 1..Len(board) : board[j].active}}

\* A cell test that finds every cell free.
IsOccupiedNever(cells, r, c) == FALSE

\* bubbles.current.some(b => b.active && b.row === r && b.col === c), given
\* the cells that hold an active bubble.
IsOccupied(cells, r, c) == <<r, c>> \in cells

\* bestDist = Infinity, bestRow = bestCol = bestX = bestY = 0
NoBest == [found |-> FALSE, dist |-> 0, row |-> 0, col |-> 0, x |-> 0, y |-> 0]

\* The inner loop of the grid-snap from column c on; distances are compared
\* by their squares.
RECURSIVE SnapCols(_, _, _, _, _)
SnapCols(cells, point, r, c, best) ==
    IF c >= colsInRow(r) THEN best
    ELSE LET pos == getBubblePos(r, c)
             dist == DistSq(point, pos)
         IN  IF IsOccupied(cells, r, c) THEN SnapCols(cells, point, r, c + 1, best)
             ELSE IF ~best.found \/ dist < best.dist
             THEN SnapCols(cells, point, r, c + 1,
                           [found |-> TRUE, dist |-> dist, row |-> r, col |-> c,
                            x |-> pos.x, y |-> pos.y])
             ELSE SnapCols(cells, point, r, c + 1, best)

\* The outer loop from row r on: for (let r = 0; r < MAX_ROWS_LIMIT + 5; r++)
RECURSIVE SnapRows(_, _, _, _)
SnapRows(cells, point, r, best) ==
    IF r >= MAX_ROWS_LIMIT + 5 THEN best
    ELSE SnapRows(cells, point, r + 1, SnapCols(cells, point, r, 0, best))

GridSnap(board, point) == SnapRows(ActiveCells(board), point, 0, NoBest)

\* What a step of the flight finds at point: the ceiling, or the first
\* active bubble of the array nearer than BUBBLE_RADIUS * 1.8.
HitOf(board, point) ==
    LET reach == (9 * BUBBLE_RADIUS) \div 5
        near == {k \in 1..Len(board) :
                    board[k].active /\ DistSq(point, PosOf(board[k])) < reach * reach}
        first == CHOOSE k \in near : \A j \in near : k <= j
    IN  IF point.y < BUBBLE_RADIUS THEN [kind |-> "ceiling", at |-> 0]
        ELSE IF near = {} THEN [kind |-> "none", at |-> 0]
        ELSE IF board[first].powerUp = "bomb" THEN [kind |-> "bomb", at |-> first]
        ELSE [kind |-> "bubble", at |-> first]

\* A limit one row too far down.
LandedPastLimitStrict(bestRow) == bestRow > MAX_ROWS_LIMIT

\* if (bestRow >= MAX_ROWS_LIMIT)
LandedPastLimit(bestRow) == bestRow >= MAX_ROWS_LIMIT

\* Most settled shots of one grid.
MaxGridShots == 6

\* The column the ball is aimed at, and how far above the centre of the cell
\* aimed at the ball is when the collision is found: a little (the cell aimed
\* at is the nearest), or so much that the two cells above are nearer.
AimCol == 5

AimRise == (3 * BUBBLE_RADIUS) \div 10

HighRise == (13 * BUBBLE_RADIUS) \div 11

HighAimRows == {6}

Raised(r, rise) ==
    [x |-> getBubblePos(r, AimCol).x, y |-> getBubblePos(r, AimCol).y - rise]

\* ballPos.current when the collision is found.
CollisionPoints ==
    {Raised(r, AimRise) : r \in 0..(MAX_ROWS_LIMIT + 4)}
        \cup {Raised(r, HighRise) : r \in HighAimRows}

\* The ball advances by at most BUBBLE_RADIUS * 0.8 between two collision
\* tests (steps = ceil(currentSpeed / (BUBBLE_RADIUS * 0.8))) and the test
\* before found no active bubble nearer than BUBBLE_RADIUS * 1.8, so none is
\* nearer than BUBBLE_RADIUS now.
Approachable(board, point) ==
    \A k \in 1..Len(board) :
        board[k].active =>
            DistSq(point, PosOf(board[k])) >= BUBBLE_RADIUS * BUBBLE_RADIUS

\* The record of a grid operation: the collision point, the cell the
\* grid-snap found, whether the ceiling dropped, the shots-until-drop counter
\* before the operation, and since, the number of settled shots since
\* initGrid counted modulo the drop interval.
GridOp(kind, point, snap, matched, dropped, shotsBefore, since) ==
    [kind |-> kind, id |-> -1, matched |-> matched, point |-> point,
     row |-> snap.row, col |-> snap.col, found |-> snap.found,
     dropped |-> dropped, shotsBefore |-> shotsBefore, since |-> since]

\* The board after initGrid(logicalWidth.current, level); the 2000 ms capture
\* timer it sets belongs to SpecGame.
GridAfterInit(level, template) ==
    /\ bubbles' = InitialGrids[level, template]
    /\ scoreRef' = 0
    /\ prevBubbles' = <<>>
    /\ prevScore' = 0
    /\ UNCHANGED colorVars
    /\ lastOp' = GridOp("initGrid", [x |-> 0, y |-> 0], NoBest, FALSE, FALSE, 0, 0)
    /\ shotsUntilDropRef' = dropInterval(level)
    /\ totalShotsRef' = 0
    /\ gameOverRef' = FALSE
    /\ difficultyRef' = level
    /\ UNCHANGED <<appState, isFlying, isPinching, isMouseDragging, isAiThinkingRef,
                   captureRequestRef, ballDist, captureTimers, analysisTimers,
                   outstanding, lastLaunch, flightAge, ballVel, flightTimedOut>>
    /\ UNCHANGED advisorVars

\* The state after the [appState] effect ran initGrid(width, 'Medium').
InitGrid ==
    /\ \E template \in GridTemplates : bubbles = InitialGrids["Medium", template]
    /\ scoreRef = 0
    /\ prevBubbles = <<>>
    /\ prevScore = 0
    /\ ColorIdle
    /\ lastOp = GridOp("initGrid", [x |-> 0, y |-> 0], NoBest, FALSE, FALSE, 0, 0)
    /\ appState = "PLAYING"
    /\ isFlying = FALSE
    /\ isPinching = FALSE
    /\ isMouseDragging = FALSE
    /\ isAiThinkingRef = FALSE
    /\ captureRequestRef = FALSE
    /\ gameOverRef = FALSE
    /\ ballDist = 0
    /\ difficultyRef = "Medium"
    /\ totalShotsRef = 0
    /\ shotsUntilDropRef = dropInterval("Medium")
    /\ captureTimers = 0
    /\ analysisTimers = 0
    /\ outstanding = 0
    /\ lastLaunch = NoLaunch
    /\ flightAge = PastLimit
    /\ ballVel = "zero"
    /\ flightTimedOut = FALSE
    /\ validTargets = <<>>
    /\ pc = "grid"
    /\ i = 0
    /\ delay = InitialDelay
    /\ attempts = 0
    /\ waits = <<>>
    /\ errs = <<>>
    /\ response = NoResponse
    /\ result = NoResult

\* restartGame on the grid.
GridRestart ==
    /\ pc = "grid"
    /\ gameOverRef
    /\ \E template \in GridTemplates : GridAfterInit(difficultyRef, template)

\* handleDifficultyChange(newDiff) on the grid.
GridDifficultyChange ==
    /\ pc = "grid"
    /\ \E newDiff \in DifficultyLevels, template \in GridTemplates :
          GridAfterInit(newDiff, template)

\* The frame in which the flying ball hits a bomb: triggerBomb(b), the ball
\* goes back to the anchor, and the update returns.
GridBombHit ==
    /\ pc = "grid"
    /\ ~gameOverRef
    /\ \E point \in CollisionPoints :
       \E hit \in {HitOf(bubbles, point)} :
          /\ hit.kind = "bomb"
          /\ Approachable(bubbles, point)
          /\ \E after \in {triggerBomb(bubbles, scoreRef, bubbles[hit.at])} :
                /\ bubbles' = after.bubbles
                /\ scoreRef' = after.score
                /\ prevBubbles' = bubbles
                /\ prevScore' = scoreRef
                /\ UNCHANGED colorVars
                /\ lastOp' = GridOp("bomb", point, NoBest, FALSE, FALSE,
                                    shotsUntilDropRef, lastOp.since)
    /\ UNCHANGED <<validTargets, pc, i, delay, attempts, waits, errs, response, result>>
    /\ UNCHANGED gameVars

\* The frame in which the flying ball meets the ceiling or a bubble that is
\* no bomb: grid-snap, push, checkMatches, the shot counters, the ceiling
\* drop when it is due and the Game-Over test; the capture request that
\* ends the branch belongs, with the timers, to SpecGame.  A ball flies only
\* if Game-Over was not set when it was released, and only a settle sets it.
GridSettle ==
    /\ pc = "grid"
    /\ ~gameOverRef
    /\ totalShotsRef < MaxGridShots
    /\ \E point \in CollisionPoints :
          /\ HitOf(bubbles, point).kind \in {"ceiling", "bubble"}
          /\ Approachable(bubbles, point)
          /\ \E snap \in {GridSnap(bubbles, point)} :
             \E color \in ShotColors :
             \E pattern \in {q \in RowPatterns : shotsUntilDropRef - 1 <= 0 \/ q = "plain"} :
             \E newBubble \in {[id |-> Len(bubbles) + 1, row |-> snap.row,
                                 col |-> snap.col, x |-> snap.x, y |-> snap.y,
                                 color |-> color, active |-> TRUE, powerUp |-> "none"]} :
             \E after \in {checkMatches(Append(bubbles, newBubble), scoreRef, newBubble)} :
             \E dropped \in {addCeilingRow(after.bubbles, pattern)} :
                LET newTotal == totalShotsRef + 1
                    nextDrop == shotsUntilDropRef - 1
                    due == nextDrop <= 0
                IN  /\ bubbles' = IF due THEN dropped.bubbles ELSE after.bubbles
                    /\ scoreRef' = after.score
                    /\ totalShotsRef' = newTotal
                    /\ shotsUntilDropRef' =
                          IF due THEN dropInterval(difficultyRef) ELSE nextDrop
                    /\ gameOverRef' = (gameOverRef \/ (due /\ dropped.over)
                                                   \/ LandedPastLimit(snap.row))
                    /\ prevBubbles' = bubbles
                    /\ prevScore' = scoreRef
                    /\ UNCHANGED colorVars
                    /\ lastOp' = GridOp("settle", point, snap, after.matched, due,
                                        shotsUntilDropRef,
                                        IF lastOp.since + 1 >= dropInterval(difficultyRef)
                                        THEN 0 ELSE lastOp.since + 1)
    /\ isFlying' = FALSE
    /\ ballDist' = 0
    /\ ballVel' = "zero"
    /\ UNCHANGED <<appState, isPinching, isMouseDragging, isAiThinkingRef, difficultyRef,
                   captureRequestRef, captureTimers, analysisTimers, outstanding,
                   lastLaunch, flightAge, flightTimedOut>>
    /\ UNCHANGED <<validTargets, pc, i, delay, attempts, waits, errs, response, result>>

NextGrid == GridSettle \/ GridBombHit \/ GridRestart \/ GridDifficultyChange

SpecGrid == InitGrid /\ [][NextGrid]_vars

(***************************************************************************)
(* The .then callback of performAiAnalysis.                                *)
(***************************************************************************)
\* What the .then callback can reach of the component: the refs of the board,
\* of the shot counters and of the flight, the selectedColor and
\* aiRecommendedColor states and the thinking flag.
ComponentState ==
    [bubbles |-> bubbles, score |-> scoreRef, total |-> totalShotsRef,
     drop |-> shotsUntilDropRef, flying |-> isFlying, ball |-> ballDist,
     vel |-> ballVel, gameOver |-> gameOverRef,
     selectedColor |-> selectedColor, recommended |-> aiRecommendedColor,
     thinking |-> isAiThinkingRef]

\* A callback that also brings the ball back to the anchor.
OnAdvisorResponseLanding(s, aiResponse) ==
    [s EXCEPT !.thinking = FALSE, !.flying = FALSE, !.ball = 0, !.vel = "zero"]

\* The .then callback of performAiAnalysis: with a numeric targetRow and
\* targetCol and a truthy recommendedColor the colour is recommended and
\* selected (setAiRecommendedColor, setSelectedColor); the thinking flag is
\* cleared.  The hint text, rationale, aim target and debug info it also sets
\* are display state.
OnAdvisorResponse(s, aiResponse) ==
    LET hint == aiResponse.hint
        aimed == hint.targetRow.t = "number" /\ hint.targetCol.t = "number"
        colored == aimed /\ Truthy(hint.recommendedColor)
    IN  [s EXCEPT !.selectedColor = IF colored THEN hint.recommendedColor.s ELSE @,
                  !.recommended = IF colored THEN hint.recommendedColor.s ELSE @,
                  !.thinking = FALSE]

\* The callback run on the component for the value the promise resolved with.
AdvisorHandled(aiResponse) ==
    \E s \in {OnAdvisorResponse(ComponentState, aiResponse)} :
        /\ bubbles' = s.bubbles
        /\ scoreRef' = s.score
        /\ totalShotsRef' = s.total
        /\ shotsUntilDropRef' = s.drop
        /\ isFlying' = s.flying
        /\ ballDist' = s.ball
        /\ ballVel' = s.vel
        /\ gameOverRef' = s.gameOver
        /\ selectedColor' = IF mounted THEN s.selectedColor ELSE selectedColor
        /\ aiRecommendedColor' = IF mounted THEN s.recommended ELSE aiRecommendedColor
        /\ isAiThinkingRef' = s.thinking
        /\ outstanding' = outstanding - 1
        /\ UNCHANGED <<appState, isPinching, isMouseDragging, captureRequestRef,
                       difficultyRef, captureTimers, analysisTimers, lastLaunch,
                       flightAge, flightTimedOut>>
        /\ UNCHANGED <<prevBubbles, prevScore, lastOp, selectedColorRef, mounted>>

(***************************************************************************)
(* The game in play on the grid: the handlers, the frames with their       *)
(* collisions, the colour selection and its renders, and the advisor       *)
(* requests with their callbacks.  In this part validTargets holds one     *)
(* allClusters list for each outstanding request.                          *)
(***************************************************************************)
\* COLOR_CONFIG[color] is an object (the keys inherited from
\* Object.prototype are no input of the model).
HasConfig(color) == color \in Palette

\* The colours of the active bubbles; Array.from(activeColors)[0] is the
\* colour of the first active bubble.
ActiveColors(board) ==
    {board[k].color : k \in {j \in 1..Len(board) : board[j].active}}

FirstActiveColor(board) ==
    LET act == {k \in 1..Len(board) : board[k].active}
    IN  board[CHOOSE k \in act : \A j \in act : k <= j].color

\* updateAvailableColors(): the selectedColor state after it.
updateAvailableColors(board, ref, state) ==
    IF ref \notin ActiveColors(board) /\ ActiveColors(board) # {}
    THEN FirstActiveColor(board)
    ELSE state

\* COLOR_CONFIG[color].points of getAllReachableClusters throws: some
\* cluster of a colour without an entry has a member with a clear path.
EnumerationThrows(board) ==
    LET IsActive(b) == b.active
        active == SelectSeq(board, IsActive)
    IN  \E k \in 1..Len(active) :
            /\ ~HasConfig(active[k].color)
            /\ active[k].powerUp # "bomb"
            /\ FindHittable(board,
                   ClusterWalk(active, active[k].color, <<active[k]>>,
                               {active[k].id}, <<>>, FALSE).members) # <<>>

\* Most settled shots of one grid in play.
MaxPlayShots == 3

\* The hand's or the pointer's distance from the anchor, and where a ball in
\* the air is.
PlayDistances == {200}

\* The time between two frames of a game in play, in ms.
PlayFrameTimes == {3000}

\* What Math.random() decided in initGrid.
PlayTemplates == {"bombLane"}

\* Whether a tracked hand pinches in a frame: the game is played with the
\* mouse.
PlayPinches == {FALSE}

\* The levels of the difficulty buttons pressed.
PlayLevels == {"Medium"}

\* What the advisor service answers: a colour outside the palette.
PlayResponses ==
    { Response("object", Str("Clear the lane"), Str("Reds first"), Str("Pink"),
               Num(3), Num(5)) }

\* The colour buttons clicked, and the number of settled shots up to which
\* they are clicked.
PlayClicks == {"red"}

MaxClickShots == 1

\* What the promise of getStrategicHint(image, targets, ...) resolves with.
PlayResults(targets) ==
    {ValidateResponse(resp, targets, "timsort").result : resp \in PlayResponses}
        \cup {OnAttemptError(err, retries - 1, targets, "timsort").result :
                 err \in TransientErrors}

NoPoint == [x |-> 0, y |-> 0]

Found(kind, point, at) == [kind |-> kind, point |-> point, at |-> at]

\* What the collision test can find on the board: the ceiling or a bubble
\* (the ball settles), or a bomb.
BoardHits(board) ==
    {Found(IF HitOf(board, point).kind = "bomb" THEN "bomb" ELSE "settle",
           point, HitOf(board, point).at) :
        point \in {pt \in CollisionPoints :
                      /\ Approachable(board, pt)
                      /\ HitOf(board, pt).kind # "none"}}

\* What the physics update finds for a ball of the age; hits: what the
\* collision test can find.
PlayHits(p, age, hits) ==
    IF ~p.flying THEN {Found("none", NoPoint, 0)}
    ELSE IF FlightExpired(age) THEN {Found("timeout", NoPoint, 0)}
    ELSE {Found("fly", NoPoint, 0), Found("out", NoPoint, 0)} \cup hits

\* The record of an operation on the board in play: the bubble it is about
\* and selectedColorRef.current as the operation found it.
PlayOp(kind, id, matched) ==
    [kind |-> kind, id |-> id, matched |-> matched, selected |-> selectedColorRef]

PlayIdle == [kind |-> "none", id |-> -1, matched |-> FALSE, selected |-> "red"]

\* The refs of the flight and the timers after the frame; q: the outcome of
\* the physics update.
FrameEnds(p, q, age, timedOut) ==
    LET consume == q.capture /\ ~q.returned
    IN  /\ consume => analysisTimers + outstanding < MaxPending
        /\ isPinching' = q.pinching
        /\ isFlying' = q.flying
        /\ flightAge' = IF q.flying THEN age ELSE PastLimit
        /\ ballVel' = q.vel
        /\ ballDist' = q.ball
        /\ flightTimedOut' = timedOut
        /\ lastLaunch' = IF p.launched THEN LaunchRecord("pinch") ELSE lastLaunch
        /\ captureRequestRef' = (q.capture /\ ~consume)
        /\ analysisTimers' = IF consume THEN analysisTimers + 1 ELSE analysisTimers
        /\ totalShotsRef' = q.total
        /\ shotsUntilDropRef' = q.drop
        /\ gameOverRef' = q.gameOver
        /\ UNCHANGED <<appState, difficultyRef, captureTimers, isMouseDragging,
                       isAiThinkingRef, outstanding>>

\* The colour the ball was released with.
NewBubbleColorAtRelease == lastLaunch.color

\* color: selectedColorRef.current of the newBubble literal.
NewBubbleColor == selectedColorRef

\* The collision branch of the frame: grid-snap, the new bubble of the colour
\* selectedColorRef.current holds now, checkMatches, updateAvailableColors,
\* the counters, the ceiling drop when due, the Game-Over test and the
\* capture request.  checkMatches throws at COLOR_CONFIG[color].points when
\* three bubbles of a colour without an entry match: the bubble stays pushed
\* and the rest of the frame is not run.
SettleFrame(p, age, point) ==
    \E snap \in {GridSnap(bubbles, point)} :
    \E newBubble \in {[id |-> Len(bubbles) + 1, row |-> snap.row, col |-> snap.col,
                       x |-> snap.x, y |-> snap.y, color |-> NewBubbleColor,
                       active |-> TRUE, powerUp |-> "none"]} :
    \E pushed \in {Append(bubbles, newBubble)} :
       IF ~HasConfig(newBubble.color) /\ Len(MatchesOf(pushed, newBubble)) >= 3
       THEN /\ FrameEnds(p, [PhysicsStep(p, "none", 0, FALSE) EXCEPT
                                !.flying = FALSE, !.returned = TRUE], age, FALSE)
            /\ bubbles' = pushed
            /\ prevBubbles' = bubbles
            /\ prevScore' = scoreRef
            /\ lastOp' = PlayOp("thrown", newBubble.id, FALSE)
            /\ UNCHANGED <<scoreRef, colorVars>>
       ELSE \E after \in {checkMatches(pushed, scoreRef, newBubble)} :
            \E pattern \in {r \in RowPatterns : shotsUntilDropRef - 1 <= 0 \/ r = "plain"} :
            \E dropped \in {addCeilingRow(after.bubbles, pattern)} :
            \E kept \in {updateAvailableColors(after.bubbles, selectedColorRef,
                                               selectedColor)} :
               LET due == shotsUntilDropRef - 1 <= 0
               IN  /\ FrameEnds(p, PhysicsStep(p, "settle", 0,
                                    LandedPastLimit(snap.row) \/ (due /\ dropped.over)),
                                age, FALSE)
                   /\ bubbles' = IF due THEN dropped.bubbles ELSE after.bubbles
                   /\ scoreRef' = after.score
                   /\ prevBubbles' = bubbles
                   /\ prevScore' = scoreRef
                   /\ selectedColor' =
                         IF ~mounted THEN selectedColor
                         ELSE IF due
                         THEN updateAvailableColors(dropped.bubbles, selectedColorRef, kept)
                         ELSE kept
                   /\ lastOp' = PlayOp("settle", newBubble.id, after.matched)
                   /\ UNCHANGED <<selectedColorRef, aiRecommendedColor, mounted>>

\* The index of the first active bubble within the explosion whose colour
\* has no entry, where createExplosion(b.x, b.y, b.color) throws at
\* COLOR_CONFIG[colorKey].hex; 0 when there is none.
FirstThrowing(board, bomb) ==
    LET bad == {k \in 1..Len(board) :
                  /\ board[k].active
                  /\ InExplosion(board[k], bomb)
                  /\ ~HasConfig(board[k].color)}
    IN  IF bad = {} THEN 0 ELSE CHOOSE k \in bad : \A j \in bad : k <= j

\* The bubbles when the forEach of triggerBomb is left at the index.
triggerBombUntil(board, bomb, last) ==
    [k \in 1..Len(board) |->
        IF k <= last /\ board[k].active /\ InExplosion(board[k], bomb)
        THEN [board[k] EXCEPT !.active = FALSE]
        ELSE board[k]]

\* The bomb branch of the frame: triggerBomb(b), the ball goes back to the
\* anchor, and the update returns.  When createExplosion throws, the frame
\* ends inside triggerBomb: the score and the ball are left as they were.
BombFrame(p, age, at) ==
    \E thrower \in {FirstThrowing(bubbles, bubbles[at])} :
       IF thrower > 0
       THEN /\ FrameEnds(p, [PhysicsStep(p, "none", 0, FALSE) EXCEPT !.returned = TRUE],
                         age, FALSE)
            /\ bubbles' = triggerBombUntil(bubbles, bubbles[at], thrower)
            /\ prevBubbles' = bubbles
            /\ prevScore' = scoreRef
            /\ lastOp' = PlayOp("bombThrown", bubbles[at].id, FALSE)
            /\ UNCHANGED <<scoreRef, colorVars>>
       ELSE \E after \in {triggerBomb(bubbles, scoreRef, bubbles[at])} :
               /\ FrameEnds(p, PhysicsStep(p, "bomb", 0, FALSE), age, FALSE)
               /\ bubbles' = after.bubbles
               /\ scoreRef' = after.score
               /\ prevBubbles' = bubbles
               /\ prevScore' = scoreRef
               /\ lastOp' = PlayOp("bomb", bubbles[at].id, FALSE)
               /\ UNCHANGED colorVars

\* One frame of onResults while PLAYING: pinch block, spring-back, physics on
\* the board, capture consumption.  pinches: whether a tracked hand pinches;
\* maySettle: the bound on the settled shots allows one more.
PlayFrame(pinches, maySettle) ==
    /\ pc = "play"
    /\ mounted
    /\ appState = "PLAYING"
    /\ \E hits \in {IF isFlying \/ isPinching THEN BoardHits(bubbles) ELSE {}} :
       \E pinchNow \in pinches, dt \in (IF isFlying THEN PlayFrameTimes ELSE {0}) :
       \E near \in (IF pinchNow THEN BOOLEAN ELSE {FALSE}),
          handDist \in (IF pinchNow THEN PlayDistances ELSE {0}) :
        LET p == SpringStep(PinchStep(pinchNow, near, handDist))
            age == IF p.launched THEN 0 ELSE AgeAfter(dt)
        IN  \E found \in PlayHits(p, age, hits) :
              CASE found.kind = "settle" ->
                       /\ maySettle
                       /\ SettleFrame(p, age, found.point)
                [] found.kind = "bomb" -> BombFrame(p, age, found.at)
                [] OTHER ->
                       /\ \E dist \in (IF found.kind = "fly" THEN PlayDistances ELSE {0}) :
                             FrameEnds(p, PhysicsStep(p, found.kind, dist, FALSE), age,
                                       found.kind = "timeout")
                       /\ UNCHANGED boardVars
    /\ UNCHANGED advisorVars

\* A frame of the game played with the mouse.
PlayTick == PlayFrame(PlayPinches, totalShotsRef < MaxPlayShots)

\* The mouse and touch handlers of the mounted canvas.
PlayStart == pc = "play" /\ mounted /\ handleStart

PlayMove ==
    /\ pc = "play"
    /\ mounted
    /\ \E dragDist \in PlayDistances : handleMoveTo(dragDist)

PlayEnd == pc = "play" /\ mounted /\ handleEnd

\* The timer set by initGrid.
PlayCaptureTimer == pc = "play" /\ CaptureTimerFires

\* A colour button of the palette is clicked (the buttons of the colours on
\* the board): setSelectedColor(color).
ColorClick ==
    /\ pc = "play"
    /\ mounted
    /\ appState = "PLAYING"
    /\ totalShotsRef < MaxClickShots
    /\ \E color \in PlayClicks \cap ActiveColors(bubbles) :
          /\ color # selectedColor
          /\ selectedColor' = color
    /\ UNCHANGED <<bubbles, scoreRef, prevBubbles, prevScore, lastOp, selectedColorRef,
                   aiRecommendedColor, mounted>>
    /\ UNCHANGED advisorVars
    /\ UNCHANGED gameVars

\* The render after a state update and its effects: selectedColorRef.current
\* = selectedColor.  The render reads COLOR_CONFIG[aiRecommendedColor].hex
\* when a colour is recommended; for a colour without an entry it throws and
\* the component is unmounted.
Render ==
    /\ pc = "play"
    /\ mounted
    /\ IF aiRecommendedColor # "none" /\ ~HasConfig(aiRecommendedColor)
       THEN /\ mounted' = FALSE
            /\ UNCHANGED selectedColorRef
       ELSE /\ selectedColorRef # selectedColor
            /\ selectedColorRef' = selectedColor
            /\ UNCHANGED mounted
    /\ UNCHANGED <<bubbles, scoreRef, prevBubbles, prevScore, lastOp, selectedColor,
                   aiRecommendedColor>>
    /\ UNCHANGED advisorVars
    /\ UNCHANGED gameVars

\* initGrid(width, level) on the grid in play: the new bubbles,
\* updateAvailableColors, the score and the counters reset, the capture timer.
PlayInitGrid(level, template) ==
    /\ initGrid(level)
    /\ bubbles' = InitialGrids[level, template]
    /\ scoreRef' = 0
    /\ prevBubbles' = bubbles
    /\ prevScore' = scoreRef
    /\ selectedColor' = updateAvailableColors(InitialGrids[level, template],
                                              selectedColorRef, selectedColor)
    /\ lastOp' = PlayOp("initGrid", -1, FALSE)
    /\ UNCHANGED <<selectedColorRef, aiRecommendedColor, mounted>>
    /\ UNCHANGED <<appState, isFlying, isPinching, isMouseDragging, isAiThinkingRef,
                   captureRequestRef, ballDist, analysisTimers, outstanding, lastLaunch,
                   flightAge, ballVel, flightTimedOut>>
    /\ UNCHANGED advisorVars

\* restartGame (the Try Again button of the Game-Over overlay).
PlayRestart ==
    /\ pc = "play"
    /\ mounted
    /\ gameOverRef
    /\ \E template \in GridTemplates : PlayInitGrid(difficultyRef, template)

\* handleDifficultyChange(newDiff).
PlayDifficultyChange ==
    /\ pc = "play"
    /\ mounted
    /\ appState = "PLAYING"
    /\ \E newDiff \in PlayLevels, template \in GridTemplates :
          PlayInitGrid(newDiff, template)

\* performAiAnalysis(screenshot): the thinking flag is set, the recommended
\* colour cleared, the clusters enumerated and getStrategicHint called; when
\* the enumeration throws the call ends there.
PlayAnalysis ==
    /\ pc = "play"
    /\ analysisTimers > 0
    /\ analysisTimers' = analysisTimers - 1
    /\ isAiThinkingRef' = TRUE
    /\ aiRecommendedColor' = IF mounted THEN "none" ELSE aiRecommendedColor
    /\ IF EnumerationThrows(bubbles)
       THEN UNCHANGED <<validTargets, outstanding>>
       ELSE /\ validTargets' = Append(validTargets, getAllReachableClusters(bubbles))
            /\ outstanding' = outstanding + 1
    /\ UNCHANGED <<pc, i, delay, attempts, waits, errs, response, result>>
    /\ UNCHANGED <<appState, isFlying, isPinching, isMouseDragging, captureRequestRef,
                   gameOverRef, ballDist, difficultyRef, totalShotsRef, shotsUntilDropRef,
                   captureTimers, lastLaunch, flightAge, ballVel, flightTimedOut>>
    /\ UNCHANGED <<bubbles, scoreRef, prevBubbles, prevScore, lastOp, selectedColorRef,
                   selectedColor, mounted>>

\* The promise of one of the outstanding requests resolves and its .then
\* callback runs.
PlayResponse ==
    /\ pc = "play"
    /\ outstanding > 0
    /\ \E k \in 1..Len(validTargets) :
          /\ \E aiResponse \in PlayResults(validTargets[k]) : AdvisorHandled(aiResponse)
          /\ validTargets' = [j \in 1..(Len(validTargets) - 1) |->
                                 IF j < k THEN validTargets[j] ELSE validTargets[j + 1]]
    /\ UNCHANGED <<pc, i, delay, attempts, waits, errs, response, result>>

\* A game on a new grid: initGrid has run a moment ago and its capture
\* timer is pending.
InitPlay ==
    /\ \E template \in PlayTemplates : bubbles = InitialGrids["Medium", template]
    /\ scoreRef = 0
    /\ prevBubbles = <<>>
    /\ prevScore = 0
    /\ ColorIdle
    /\ lastOp = PlayIdle
    /\ appState = "PLAYING"
    /\ isFlying = FALSE
    /\ isPinching = FALSE
    /\ isMouseDragging = FALSE
    /\ isAiThinkingRef = FALSE
    /\ captureRequestRef = FALSE
    /\ gameOverRef = FALSE
    /\ ballDist = 0
    /\ difficultyRef = "Medium"
    /\ totalShotsRef = 0
    /\ shotsUntilDropRef = dropInterval("Medium")
    /\ captureTimers = 1
    /\ analysisTimers = 0
    /\ outstanding = 0
    /\ lastLaunch = NoLaunch
    /\ flightAge = PastLimit
    /\ ballVel = "zero"
    /\ flightTimedOut = FALSE
    /\ validTargets = <<>>
    /\ pc = "play"
    /\ i = 0
    /\ delay = InitialDelay
    /\ attempts = 0
    /\ waits = <<>>
    /\ errs = <<>>
    /\ response = NoResponse
    /\ result = NoResult

NextPlay ==
    \/ PlayTick
    \/ PlayStart
    \/ PlayMove
    \/ PlayEnd
    \/ PlayCaptureTimer
    \/ ColorClick
    \/ Render
    \/ PlayAnalysis
    \/ PlayResponse

SpecPlay == InitPlay /\ [][NextPlay]_vars

(***************************************************************************)
(* The end of a game: a Hard game in which the lane has grown to the last  *)
(* row above the limit, the shot that ends it, and what follows.           *)
(***************************************************************************)
\* The board after a shot of the colour has settled under the lane, aimed at
\* the row.
LateShot(board, color, row) ==
    LET snap == GridSnap(board, Raised(row, AimRise))
        newBubble == [id |-> Len(board) + 1, row |-> snap.row, col |-> snap.col,
                      x |-> snap.x, y |-> snap.y, color |-> color,
                      active |-> TRUE, powerUp |-> "none"]
    IN  checkMatches(Append(board, newBubble), 0, newBubble).bubbles

\* The shots of a Hard game until the ceiling drops.
LateShots == dropInterval("Hard")

\* The lane of initGrid(width, 'Hard') after four shots, red and blue in
\* turn, have settled under it and the ceiling has dropped once.
LateBoard ==
    addCeilingRow(
        LateShot(LateShot(LateShot(LateShot(InitialGrids["Hard", "lane"],
                                            "red", 6), "blue", 7), "red", 8), "blue", 9),
        "plain").bubbles

\* Most shots that settle after the ceiling has dropped.
MaxOverShots == 1

\* The advisor has answered every request, the last one with red; no timer
\* is pending.
InitOver ==
    /\ bubbles = LateBoard
    /\ scoreRef = 0
    /\ prevBubbles = <<>>
    /\ prevScore = 0
    /\ selectedColorRef = "red"
    /\ selectedColor = "red"
    /\ aiRecommendedColor = "red"
    /\ mounted = TRUE
    /\ lastOp = PlayIdle
    /\ appState = "PLAYING"
    /\ isFlying = FALSE
    /\ isPinching = FALSE
    /\ isMouseDragging = FALSE
    /\ isAiThinkingRef = FALSE
    /\ captureRequestRef = FALSE
    /\ gameOverRef = FALSE
    /\ ballDist = 0
    /\ difficultyRef = "Hard"
    /\ totalShotsRef = LateShots
    /\ shotsUntilDropRef = dropInterval("Hard")
    /\ captureTimers = 0
    /\ analysisTimers = 0
    /\ outstanding = 0
    /\ lastLaunch = NoLaunch
    /\ flightAge = PastLimit
    /\ ballVel = "zero"
    /\ flightTimedOut = FALSE
    /\ validTargets = <<>>
    /\ pc = "play"
    /\ i = 0
    /\ delay = InitialDelay
    /\ attempts = 0
    /\ waits = <<>>
    /\ errs = <<>>
    /\ response = NoResponse
    /\ result = NoResult

\* One frame of onResults, with and without a pinching hand; a ball settles
\* only as one of the shots after the ceiling drop.
OverTick ==
    PlayFrame(BOOLEAN, totalShotsRef >= LateShots
                          /\ totalShotsRef < LateShots + MaxOverShots)

\* A difficulty button pressed once the game has ended.
OverDifficultyChange == gameOverRef /\ PlayDifficultyChange

NextOver ==
    \/ OverTick
    \/ PlayStart
    \/ PlayMove
    \/ PlayEnd
    \/ PlayCaptureTimer
    \/ Render
    \/ PlayRestart
    \/ OverDifficultyChange
    \/ PlayAnalysis
    \/ PlayResponse

SpecOver == InitOver /\ [][NextOver]_vars

(***************************************************************************)
(* isNeighbor on its own: two bubbles made at two cells.                   *)
(***************************************************************************)
\* The last row the two cells are drawn from.
MaxCellRow == 3

\* Every row and column a bubble can have, the column 11 an odd row gets
\* from addCeilingRow included.
CellPairs ==
    {pair \in ((0..MaxCellRow) \X (0..(GRID_COLS - 1))) \X
               ((0..MaxCellRow) \X (0..(GRID_COLS - 1))) : pair[1] # pair[2]}

InitCells ==
    /\ \E pair \in CellPairs :
          bubbles = <<Bubble(1, pair[1][1], pair[1][2], "red", TRUE, "none"),
                      Bubble(2, pair[2][1], pair[2][2], "blue", TRUE, "none")>>
    /\ scoreRef = 0
    /\ prevBubbles = <<>>
    /\ prevScore = 0
    /\ ColorIdle
    /\ lastOp = NoOp
    /\ validTargets = <<>>
    /\ pc = "cells"
    /\ i = 0
    /\ delay = InitialDelay
    /\ attempts = 0
    /\ waits = <<>>
    /\ errs = <<>>
    /\ response = NoResponse
    /\ result = NoResult
    /\ GameIdle

\* isNeighbor(b1, b2) for the two bubbles.
ApplyNeighbor ==
    /\ pc = "cells"
    /\ pc' = "compared"
    /\ lastOp' = [kind |-> "isNeighbor", id |-> bubbles[1].id,
                  matched |-> isNeighbor(bubbles[1], bubbles[2])]
    /\ UNCHANGED <<bubbles, scoreRef, prevBubbles, prevScore>>
    /\ UNCHANGED colorVars
    /\ UNCHANGED <<validTargets, i, delay, attempts, waits, errs, response, result>>
    /\ UNCHANGED gameVars

NextCells == ApplyNeighbor

SpecCells == InitCells /\ [][NextCells]_vars

(***************************************************************************)
(* Properties of the board (SpecBoard).                                    *)
(***************************************************************************)
\* The bubble of the board with the id.
BubbleWithId(board, id) == board[CHOOSE k \in 1..Len(board) : board[k].id = id]

\* The ids of the active bubbles connected to the start bubble through the
\* neighbour relation via bubbles of the colour or rainbow bubbles: the least
\* set that holds the start and every active bubble of the colour, or rainbow,
\* that neighbours a member.
RECURSIVE GrowSet(_, _, _)
GrowSet(board, color, set) ==
    LET more == { board[k].id : k \in
                    { j \in 1..Len(board) :
                        /\ board[j].active
                        /\ (board[j].color = color \/ board[j].powerUp = "rainbow")
                        /\ \E m \in 1..Len(board) :
                              board[m].id \in set /\ isNeighbor(board[m], board[j]) } }
    IN  IF more \subseteq set THEN set ELSE GrowSet(board, color, set \cup more)

ConnectedSet(board, start) == GrowSet(board, start.color, {start.id})

\* The set connected to the settled shot on the board the match check ran on.
ShotSet == ConnectedSet(prevBubbles, BubbleWithId(prevBubbles, ShotId))

ShotColor == BubbleWithId(prevBubbles, ShotId).color

Settled == lastOp.kind = "settle"

\* Exactly the bubbles with the ids went from active to inactive, and nothing
\* else about the bubbles changed.
DeactivatedExactly(ids) ==
    /\ Len(bubbles) = Len(prevBubbles)
    /\ \A k \in 1..Len(bubbles) :
          bubbles[k] = IF prevBubbles[k].id \in ids /\ prevBubbles[k].active
                       THEN [prevBubbles[k] EXCEPT !.active = FALSE]
                       ELSE prevBubbles[k]

\* C14: when the settled shot of colour C and the active bubbles connected to it
\* via bubbles of colour C or rainbows form a set of size n >= 3, every member
\* is deactivated, nothing outside the set is, and the score grows by exactly
\* floor(n * points[C] * (1.5 if n > 3, else 1)).
C14_MatchPopsWholeSet ==
    (Settled /\ Cardinality(ShotSet) >= 3) =>
        LET n == Cardinality(ShotSet)
        IN  /\ DeactivatedExactly(ShotSet)
            /\ \A k \in 1..Len(bubbles) : bubbles[k].id \in ShotSet => ~bubbles[k].active
            /\ scoreRef - prevScore =
                   IF n > 3 THEN (n * Points(ShotColor) * 3) \div 2
                   ELSE n * Points(ShotColor)

\* C14 witness: a red shot joined two reds through a rainbow: four bubbles
\* popped, the rainbow among them, for 600 points.
C14_Witness ==
    /\ Settled
    /\ ShotColor = "red"
    /\ Cardinality(ShotSet) = 4
    /\ \E k \in 1..Len(prevBubbles) :
          /\ prevBubbles[k].id \in ShotSet
          /\ prevBubbles[k].powerUp = "rainbow"
          /\ ~bubbles[k].active
    /\ scoreRef - prevScore = 600

\* C15: when the set connected to the settled shot has fewer than 3 members,
\* the match check deactivates nothing (the new bubble stays active) and the
\* score is unchanged.
C15_SmallSetNoChange ==
    (Settled /\ Cardinality(ShotSet) < 3) =>
        /\ bubbles = prevBubbles
        /\ BubbleWithId(bubbles, ShotId).active
        /\ scoreRef = prevScore
        /\ ~lastOp.matched

\* C15 witness: a shot that settled next to one bubble of its colour.
C15_Witness ==
    /\ Settled
    /\ Cardinality(ShotSet) = 2
    /\ bubbles = prevBubbles
    /\ scoreRef = prevScore

Enumerated == pc = "enumerated"

\* C16: the colour of a cluster is never taken from a rainbow bubble's stored
\* colour.  The match engine always seeds with the settled shot, which carries
\* no power-up; and every cluster candidate of the enumerator has a colour that
\* some active bubble other than a rainbow stores, so no rainbow started the
\* cluster, made its colour present or chose its points.
C16_RainbowNeverSeeds ==
    /\ Settled => BubbleWithId(prevBubbles, ShotId).powerUp # "rainbow"
    /\ Enumerated =>
          \A k \in 1..Len(validTargets) :
              validTargets[k].powerUp # "bomb" =>
                  \E j \in 1..Len(bubbles) :
                      /\ bubbles[j].active
                      /\ bubbles[j].powerUp # "rainbow"
                      /\ bubbles[j].color = validTargets[k].color

\* The score of a match of n bubbles of the colour.
MatchScore(n, color) ==
    IF n > 3 THEN (n * Points(color) * 3) \div 2 ELSE n * Points(color)

\* The bubbles that the last operation took from active to inactive, as
\* indices of the board it ran on.
Popped ==
    { k \in 1..Len(prevBubbles) :
        k <= Len(bubbles) /\ prevBubbles[k].active /\ ~bubbles[k].active }

\* C17: the match engine never deactivates a bomb bubble and never counts it
\* toward the size of a match, whatever colour the bomb stores: a bomb goes
\* inactive only in a bomb's area effect, and the score of a match is the
\* score of the bubbles other than bombs that it popped.
C17_MatchNeverTakesBomb ==
    /\ \A k \in Popped : prevBubbles[k].powerUp = "bomb" => lastOp.kind = "bomb"
    /\ Settled =>
          LET n == Cardinality({ k \in Popped : prevBubbles[k].powerUp # "bomb" })
          IN  scoreRef - prevScore = IF n = 0 THEN 0 ELSE MatchScore(n, ShotColor)

Exploded == lastOp.kind = "bomb"

\* The ids of the active bubbles of the board whose centre lies within 3.5
\* bubble radii of the centre: dist <= 3.5 R, squared and cleared of the
\* fraction, 4 dist^2 <= 49 R^2.
WithinBlast(board, centre) ==
    { board[k].id : k \in
        { j \in 1..Len(board) :
            /\ board[j].active
            /\ 4 * DistSq(PosOf(board[j]), PosOf(centre))
                 <= 49 * BUBBLE_RADIUS * BUBBLE_RADIUS } }

BlastSet == WithinBlast(prevBubbles, BubbleWithId(prevBubbles, lastOp.id))

\* C18: triggering a bomb deactivates exactly the active bubbles whose centre
\* lies within 3.5 bubble radii of the bomb's centre, the bomb included,
\* whatever their colour or power-up; every other bubble is unchanged; and the
\* score grows by 50 for each bubble deactivated.
C18_BombClearsBlastRadius ==
    Exploded =>
        /\ lastOp.id \in BlastSet
        /\ DeactivatedExactly(BlastSet)
        /\ scoreRef - prevScore = 50 * Cardinality(BlastSet)

\* C18 witness: a bomb took a rainbow or a bubble of another cell with it while
\* an active bubble outside the radius stayed active.
C18_Witness ==
    /\ Exploded
    /\ Cardinality(BlastSet) >= 2
    /\ \E k \in 1..Len(bubbles) :
          /\ prevBubbles[k].active
          /\ prevBubbles[k].id \notin BlastSet
          /\ bubbles[k].active
    /\ scoreRef - prevScore = 50 * Cardinality(BlastSet)

\* The active bubbles of the board at the cell that pass isPathClear.
ClearBubblesAt(board, row, col) ==
    { k \in 1..Len(board) :
        /\ board[k].active
        /\ board[k].row = row
        /\ board[k].col = col
        /\ isPathClear(board, board[k]) }

\* C19: every candidate the enumerator returns, cluster or bomb, names the
\* (row, col) of an active bubble that passes isPathClear on the board the
\* enumeration ran on.
C19_CandidatesAreHittable ==
    Enumerated =>
        \A k \in 1..Len(validTargets) :
            ClearBubblesAt(bubbles, validTargets[k].row, validTargets[k].col) # {}

\* C19 witness: the call returned a cluster candidate although an active
\* bubble of the candidate's colour fails isPathClear on the same board.
C19_Witness ==
    /\ Enumerated
    /\ \E k \in 1..Len(validTargets) :
          /\ validTargets[k].powerUp # "bomb"
          /\ \E j \in 1..Len(bubbles) :
                /\ bubbles[j].active
                /\ bubbles[j].color = validTargets[k].color
                /\ bubbles[j].powerUp = "none"
                /\ ~isPathClear(bubbles, bubbles[j])

\* The ids of the maximal connected set of the colour around the start bubble:
\* the least set that holds the start and every active bubble that neighbours
\* a member and is a plain bubble of the colour or a rainbow.  Bombs are left
\* to the bomb step of the enumerator.
RECURSIVE GrowCluster(_, _, _)
GrowCluster(board, color, set) ==
    LET more == { board[k].id : k \in
                    { j \in 1..Len(board) :
                        /\ board[j].active
                        /\ \/ board[j].powerUp = "none" /\ board[j].color = color
                           \/ board[j].powerUp = "rainbow"
                        /\ \E m \in 1..Len(board) :
                              board[m].id \in set /\ isNeighbor(board[m], board[j]) } }
    IN  IF more \subseteq set THEN set ELSE GrowCluster(board, color, set \cup more)

ClusterOf(board, start) == GrowCluster(board, start.color, {start.id})

\* The cluster candidates of the list for the set of the colour: those of the
\* colour that name the cell of a member.
CandidatesFor(list, board, color, set) ==
    { k \in 1..Len(list) :
        /\ list[k].powerUp # "bomb"
        /\ list[k].color = color
        /\ \E j \in 1..Len(board) :
              /\ board[j].id \in set
              /\ board[j].row = list[k].row
              /\ board[j].col = list[k].col }

HasClearMember(board, set) ==
    \E j \in 1..Len(board) : board[j].id \in set /\ isPathClear(board, board[j])

\* C20: for every colour present on the board and every maximal connected set
\* of active bubbles of that colour plus adjoining rainbows, one enumeration
\* holds exactly one candidate for the set when some member passes isPathClear,
\* and none when no member does.
C20_OneCandidatePerCluster ==
    Enumerated =>
        \A j \in 1..Len(bubbles) :
            (bubbles[j].active /\ bubbles[j].powerUp = "none") =>
                LET set == ClusterOf(bubbles, bubbles[j])
                    found == CandidatesFor(validTargets, bubbles, bubbles[j].color, set)
                IN  Cardinality(found) = IF HasClearMember(bubbles, set) THEN 1 ELSE 0

\* The bomb candidates of the list that name the cell.
BombCandidatesAt(list, row, col) ==
    { k \in 1..Len(list) :
        list[k].powerUp = "bomb" /\ list[k].row = row /\ list[k].col = col }

\* C21: one enumeration returns exactly one bomb candidate for every active
\* bomb that passes isPathClear and none for a bomb that fails it, whatever
\* colours are on the board.
C21_OneCandidatePerClearBomb ==
    Enumerated =>
        \A j \in 1..Len(bubbles) :
            (bubbles[j].active /\ bubbles[j].powerUp = "bomb") =>
                Cardinality(BombCandidatesAt(validTargets, bubbles[j].row, bubbles[j].col))
                    = IF isPathClear(bubbles, bubbles[j]) THEN 1 ELSE 0

\* steps = ceil(distance / (radius / 2)): the least count of half radii that
\* covers the distance from the anchor to the target.
StepCount(target) ==
    LET d == DistSq(anchorPos, PosOf(target))
        Covers(m) == ((m * BUBBLE_RADIUS) \div 2) * ((m * BUBBLE_RADIUS) \div 2) >= d
    IN  CHOOSE n \in 0..200 : Covers(n) /\ (n > 0 => ~Covers(n - 1))

\* The point i / steps of the way from the anchor to the target.
PointAlong(target, idx, steps) ==
    [x |-> anchorPos.x + ((PosOf(target).x - anchorPos.x) * idx) \div steps,
     y |-> anchorPos.y + ((PosOf(target).y - anchorPos.y) * idx) \div steps]

\* The bubble's centre lies within 1.8 bubble radii of the point.
NearPoint(b, point) ==
    DistSq(PosOf(b), point) < ((9 * BUBBLE_RADIUS) \div 5) * ((9 * BUBBLE_RADIUS) \div 5)

\* Some active bubble other than the target is near a sample i / steps with
\* 1 <= i < steps - 2.
Blocked(board, target) ==
    LET steps == StepCount(target)
    IN  \E idx \in 1..(steps - 3) :
            \E k \in 1..Len(board) :
                /\ board[k].active
                /\ board[k].id # target.id
                /\ NearPoint(board[k], PointAlong(target, idx, steps))

\* C22: isPathClear(target) is false whenever some active bubble other than the
\* target has its centre within 1.8 bubble radii of a sample i / steps of the
\* segment from the anchor to the target with 1 <= i < steps - 2 and
\* steps = ceil(distance / (radius / 2)); inactive bubbles and the target
\* itself never block, so it is true otherwise.
C22_PathClearIffNoActiveNear ==
    Enumerated =>
        \A j \in 1..Len(bubbles) :
            isPathClear(bubbles, bubbles[j]) = ~Blocked(bubbles, bubbles[j])

\* C22 witness: on one enumerated board an active bubble blocks a target, and another
\* target is clear although a popped bubble sits near one of its samples.
C22_Witness ==
    /\ Enumerated
    /\ \E j \in 1..Len(bubbles) :
          bubbles[j].active /\ ~isPathClear(bubbles, bubbles[j])
    /\ \E j \in 1..Len(bubbles) :
          /\ bubbles[j].active
          /\ isPathClear(bubbles, bubbles[j])
          /\ \E idx \in 1..(StepCount(bubbles[j]) - 3) :
                \E k \in 1..Len(bubbles) :
                    /\ ~bubbles[k].active
                    /\ NearPoint(bubbles[k],
                                 PointAlong(bubbles[j], idx, StepCount(bubbles[j])))

\* The active bubbles of the board at the candidate's cell.
NamedBy(board, c) ==
    { k \in 1..Len(board) :
        board[k].active /\ board[k].row = c.row /\ board[k].col = c.col }

Countable(board, color) ==
    { k \in 1..Len(board) :
        /\ board[k].active
        /\ board[k].powerUp # "bomb"
        /\ (board[k].color = color \/ board[k].powerUp = "rainbow") }

\* C30: bombs bypass the cluster step of the enumerator: a colour-cluster
\* candidate never names a bomb's cell as its hittable member and never counts
\* a bomb in its size, so its size is at most the number of bubbles other than
\* bombs that can belong to a cluster of its colour; and a candidate that names
\* an active bomb is a bomb candidate with the sentinel size 10.
C30_BombsBypassClusters ==
    Enumerated =>
        \A k \in 1..Len(validTargets) :
            IF validTargets[k].powerUp = "bomb"
            THEN validTargets[k].size = 10
            ELSE /\ \A m \in NamedBy(bubbles, validTargets[k]) :
                        bubbles[m].powerUp # "bomb"
                 /\ validTargets[k].size
                        <= Cardinality(Countable(bubbles, validTargets[k].color))

(***************************************************************************)
(* Properties of the grid.                                                 *)
(***************************************************************************)
\* The latest operation was a settled shot (prevBubbles is the board before
\* it), and one whose ceiling drop was due.
GridSettled == pc = "grid" /\ lastOp.kind = "settle"

Escalated == GridSettled /\ lastOp.dropped

\* The index of the bubble the latest settled shot pushed.
NewIndex == Len(prevBubbles) + 1

ActiveRows(board) == {board[k].row : k \in {j \in 1..Len(board) : board[j].active}}

\* C23: a settled shot drops the ceiling exactly when it is the shot that
\* completes the drop interval of the difficulty since the latest drop or
\* initGrid.  Then every bubble that is active afterwards is one row further
\* down than before (the settled one a row below the cell it landed in),
\* twelve new active bubbles fill columns 0..11 of row 0, the shots-until-drop
\* counter is the drop interval again, and Game-Over is set if and only if
\* an active bubble is at row 11 or beyond or the shot landed there.  A
\* settled shot that does not complete the interval lowers the counter by
\* one and moves nothing.
C23_CeilingEscalation ==
    GridSettled =>
        /\ lastOp.dropped <=> lastOp.since = 0
        /\ Escalated =>
              /\ Len(bubbles) = NewIndex + GRID_COLS
              /\ \A k \in 1..Len(prevBubbles) :
                    bubbles[k].active => bubbles[k].row = prevBubbles[k].row + 1
              /\ bubbles[NewIndex].active => bubbles[NewIndex].row = lastOp.row + 1
              /\ \A c \in 0..(GRID_COLS - 1) :
                    /\ bubbles[NewIndex + 1 + c].active
                    /\ bubbles[NewIndex + 1 + c].row = 0
                    /\ bubbles[NewIndex + 1 + c].col = c
              /\ shotsUntilDropRef = dropInterval(difficultyRef)
              /\ gameOverRef <=>
                    \/ \E r \in ActiveRows(bubbles) : r >= MAX_ROWS_LIMIT
                    \/ lastOp.row >= MAX_ROWS_LIMIT
        /\ ~lastOp.dropped =>
              /\ shotsUntilDropRef = lastOp.shotsBefore - 1
              /\ Len(bubbles) = NewIndex
              /\ \A k \in 1..Len(prevBubbles) : bubbles[k].row = prevBubbles[k].row
              /\ bubbles[NewIndex].row = lastOp.row

\* A ceiling drop brought a bubble to the danger row and ended the game,
\* though the shot landed above it.
C23_Witness ==
    /\ Escalated
    /\ gameOverRef
    /\ lastOp.row < MAX_ROWS_LIMIT
    /\ \E r \in ActiveRows(bubbles) : r >= MAX_ROWS_LIMIT

\* C25: after any sequence of grid initialisations, settled shots, matches,
\* bomb explosions and ceiling drops, the stored position of every active
\* bubble is getBubblePos of its row and column.
C25_PositionIsProjection ==
    pc = "grid" =>
        \A k \in 1..Len(bubbles) :
            bubbles[k].active =>
                PosOf(bubbles[k]) = getBubblePos(bubbles[k].row, bubbles[k].col)

\* A ceiling drop moved a bubble of the board before it, and the bubble the
\* shot left, to new rows.
C25_Witness ==
    /\ Escalated
    /\ bubbles[NewIndex].active
    /\ \E k \in 1..Len(prevBubbles) :
          bubbles[k].active /\ bubbles[k].y # prevBubbles[k].y

\* C26: a settled shot whose bubble is placed at row 11 or beyond leaves the
\* game in Game-Over; one placed above row 11, in a settle whose ceiling
\* drop, if any, brings no active bubble to row 11 or beyond, leaves
\* Game-Over unset.
C26_LandingPastLimitEndsGame ==
    GridSettled =>
        /\ lastOp.row >= MAX_ROWS_LIMIT => gameOverRef
        /\ (/\ lastOp.row < MAX_ROWS_LIMIT
            /\ ~(lastOp.dropped /\ \E r \in ActiveRows(bubbles) : r >= MAX_ROWS_LIMIT))
              => ~gameOverRef

C26_Witness ==
    /\ GridSettled
    /\ lastOp.row >= MAX_ROWS_LIMIT
    /\ ~lastOp.dropped
    /\ gameOverRef

\* C27: every active bubble is in a column 0..11 of an even row or a column
\* 0..10 of an odd row, also after ceiling drops.
C27_ColumnsWithinRow ==
    pc = "grid" =>
        \A k \in 1..Len(bubbles) :
            bubbles[k].active =>
                /\ 0 <= bubbles[k].col
                /\ bubbles[k].col < (IF bubbles[k].row % 2 = 0 THEN 12 ELSE 11)

\* The cells of rows 0..15.
SearchedCells ==
    {cell \in (0..(MAX_ROWS_LIMIT + 4)) \X (0..(GRID_COLS - 1)) :
        cell[2] < (IF cell[1] % 2 = 0 THEN GRID_COLS ELSE GRID_COLS - 1)}

ActiveCount(board) == Cardinality({k \in 1..Len(board) : board[k].active})

\* C28: no two active bubbles are in the same cell; and a settled shot adds
\* exactly one bubble, in a cell of rows 0..15 that held no active bubble
\* before, no other such cell being nearer to the collision point.
C28_OneBubblePerCell ==
    pc = "grid" =>
        /\ Cardinality(ActiveCells(bubbles)) = ActiveCount(bubbles)
        /\ GridSettled =>
              /\ Len(bubbles) = NewIndex + (IF lastOp.dropped THEN GRID_COLS ELSE 0)
              /\ \A k \in 1..Len(prevBubbles) : bubbles[k].id = prevBubbles[k].id
              /\ bubbles[NewIndex].col = lastOp.col
              /\ bubbles[NewIndex].row =
                    lastOp.row + (IF lastOp.dropped /\ bubbles[NewIndex].active
                                  THEN 1 ELSE 0)
              /\ \E taken \in {ActiveCells(prevBubbles)} :
                 \E chosen \in {DistSq(lastOp.point,
                                       getBubblePos(lastOp.row, lastOp.col))} :
                    /\ <<lastOp.row, lastOp.col>> \in SearchedCells \ taken
                    /\ \A cell \in SearchedCells \ taken :
                          chosen <= DistSq(lastOp.point, getBubblePos(cell[1], cell[2]))

\* A shot settled beside the cell nearest to its collision point, which held
\* an active bubble.
C28_Witness ==
    /\ GridSettled
    /\ \E k \in 1..Len(prevBubbles) :
          /\ prevBubbles[k].active
          /\ DistSq(lastOp.point, getBubblePos(prevBubbles[k].row, prevBubbles[k].col))
                < DistSq(lastOp.point, getBubblePos(lastOp.row, lastOp.col))
\* C38: while the Game-Over flag is false every active bubble is in a row
\* below the danger threshold of 11, after any sequence of initialisations,
\* settled shots, matches, bomb explosions and ceiling drops.
C38_ActiveRowsBelowLimit ==
    (pc = "grid" /\ ~gameOverRef) =>
        \A k \in 1..Len(bubbles) :
            bubbles[k].active => bubbles[k].row < MAX_ROWS_LIMIT

\* A ceiling drop has moved a bubble into row 10, the last row below the
\* threshold, and the game goes on.
C38_Witness ==
    /\ Escalated
    /\ ~gameOverRef
    /\ \E k \in 1..Len(bubbles) :
          bubbles[k].active /\ bubbles[k].row = MAX_ROWS_LIMIT - 1

(***************************************************************************)
(* Properties of isNeighbor (SpecCells).                                   *)
(***************************************************************************)
\* Adjacency of two cells in the offset layout: side by side in a row, or in
\* adjacent rows with the odd row's cell half a column to the right of, or
\* half a column to the left of, the even row's.
HexAdjacent(r1, c1, r2, c2) ==
    \/ r1 = r2 /\ (c1 - c2 = 1 \/ c2 - c1 = 1)
    \/ /\ (r1 - r2 = 1 \/ r2 - r1 = 1)
       /\ IF r1 % 2 = 0 THEN c2 \in {c1 - 1, c1} ELSE c2 \in {c1, c1 + 1}

\* The cells of the rows of the model, and of one row more on each side,
\* that isNeighbor finds next to the first bubble.
NeighborCells ==
    {cell \in ((-1)..(MaxCellRow + 1)) \X ((-1)..GRID_COLS) :
        /\ cell # <<bubbles[1].row, bubbles[1].col>>
        /\ isNeighbor(bubbles[1], Bubble(0, cell[1], cell[2], "red", TRUE, "none"))}

\* C40: for two distinct bubbles at the projections of their cells,
\* isNeighbor holds exactly when the cells are adjacent in the offset
\* layout, and no bubble has more than six neighbouring cells.
C40_NeighborIsHexAdjacency ==
    pc = "compared" =>
        /\ lastOp.matched <=> HexAdjacent(bubbles[1].row, bubbles[1].col,
                                          bubbles[2].row, bubbles[2].col)
        /\ Cardinality(NeighborCells) <= 6

\* Two bubbles in adjacent rows were found to be neighbours, the first one
\* having six neighbouring cells.
C40_Witness ==
    /\ pc = "compared"
    /\ lastOp.matched
    /\ bubbles[1].row # bubbles[2].row
    /\ Cardinality(NeighborCells) = 6

(***************************************************************************)
(* Properties of the game in play (SpecPlay).                              *)
(***************************************************************************)
\* C31: in every reachable state the colour of every bubble of the set and
\* the currently selected projectile colour belong to the six-colour palette,
\* whatever the advisor returns as recommendedColor.
C31_ColorsInPalette ==
    /\ \A k \in 1..Len(bubbles) : bubbles[k].color \in Palette
    /\ selectedColor \in Palette
    /\ selectedColorRef \in Palette

\* C32: handling an advisor response, AI hint or fallback, leaves the bubbles,
\* the score, the shot counters, the flight state and the Game-Over flag as
\* they were; of the game's state it writes only the recommended and the
\* selected colour and the thinking flag (hint text, rationale, aim target
\* and debug info are display state), and the request is no longer
\* outstanding.
C32_ResponseLeavesGameAlone ==
    [][outstanding' < outstanding =>
          /\ UNCHANGED <<bubbles, scoreRef, totalShotsRef, shotsUntilDropRef>>
          /\ UNCHANGED <<isFlying, ballDist, ballVel, flightAge, flightTimedOut, lastLaunch>>
          /\ UNCHANGED <<gameOverRef, appState, difficultyRef, isPinching, isMouseDragging>>
          /\ UNCHANGED <<captureRequestRef, captureTimers, analysisTimers>>
          /\ UNCHANGED <<selectedColorRef, mounted>>]_vars

\* C32 witness: the callback has recommended and selected a colour while a
\* ball was in the air over a board with a popped bubble; the ball flies on.
C32_Witness ==
    /\ outstanding = 0
    /\ ~isAiThinkingRef
    /\ aiRecommendedColor # "none"
    /\ selectedColor = aiRecommendedColor
    /\ selectedColor # selectedColorRef
    /\ isFlying
    /\ ballVel = "moving"
    /\ scoreRef > 0
    /\ \E k \in 1..Len(bubbles) : ~bubbles[k].active

\* The frame in which the ball met a bomb.
BombTick == lastOp'.kind \in {"bomb", "bombThrown"} /\ bubbles' # bubbles

\* C33: when the flying ball's collision is with a bomb, that tick applies
\* the bomb's area effect and brings the ball back to the anchor with zero
\* velocity; no bubble is added, no bubble changes its row, the total-shot
\* counter, the shots-until-drop counter and the Game-Over flag are
\* unchanged, and the tick requests no capture.
C33_BombTickFrame ==
    [][BombTick =>
          LET bomb == BubbleWithId(bubbles, lastOp'.id)
          IN  /\ bomb.powerUp = "bomb"
              /\ bubbles' = triggerBomb(bubbles, scoreRef, bomb).bubbles
              /\ scoreRef' = triggerBomb(bubbles, scoreRef, bomb).score
              /\ ~BubbleWithId(bubbles', bomb.id).active
              /\ Len(bubbles') = Len(bubbles)
              /\ \A k \in 1..Len(bubbles) :
                    /\ bubbles'[k].row = bubbles[k].row
                    /\ bubbles'[k].y = bubbles[k].y
                    /\ bubbles'[k].color = bubbles[k].color
                    /\ bubbles'[k].active => bubbles[k].active
              /\ ~isFlying'
              /\ ballDist' = 0
              /\ ballVel' = "zero"
              /\ totalShotsRef' = totalShotsRef
              /\ shotsUntilDropRef' = shotsUntilDropRef
              /\ gameOverRef' = gameOverRef
              /\ captureRequestRef' = captureRequestRef
              /\ analysisTimers' = analysisTimers]_vars

\* C35: Game-Over is terminal: while the Game-Over flag is set no ball is in
\* the air and none is launched by mouse, touch or pinch, and the bubbles,
\* the score and the shot counters do not change; only initGrid, run by a
\* restart or a difficulty change, clears the flag.
C35_GameOverTerminal ==
    /\ [](gameOverRef => ~isFlying)
    /\ [][gameOverRef =>
             \/ /\ ~gameOverRef'
                /\ lastOp'.kind = "initGrid"
                /\ totalShotsRef' = 0
             \/ /\ gameOverRef'
                /\ ~isFlying'
                /\ lastLaunch' = lastLaunch
                /\ UNCHANGED <<bubbles, scoreRef, totalShotsRef, shotsUntilDropRef>>]_vars

\* C35 witness: the fifth shot, launched by a pinch, has settled in row
\* MAX_ROWS_LIMIT and ended the game; the ball is at rest at the anchor.
C35_Witness ==
    /\ gameOverRef
    /\ lastOp.kind = "settle"
    /\ BubbleWithId(bubbles, lastOp.id).row = MAX_ROWS_LIMIT
    /\ totalShotsRef = LateShots + 1
    /\ lastLaunch.by = "pinch"
    /\ ~isFlying
    /\ ~isPinching
    /\ ballDist = 0

\* What can still lead to a .then callback of performAiAnalysis: a call of
\* getStrategicHint that has not resolved, a timer of performAiAnalysis or of
\* initGrid that has not fired, a capture request no frame has consumed, or a
\* shot in the air or being drawn, whose settling requests a capture.
CallbackPossible ==
    \/ outstanding > 0
    \/ analysisTimers > 0
    \/ captureTimers > 0
    \/ captureRequestRef
    \/ isFlying
    \/ isMouseDragging
    \/ isPinching

\* C37: every advisor request eventually completes and the thinking flag set
\* by performAiAnalysis is eventually cleared: while the flag is set there is
\* a request, or something leading to one, whose callback will clear it; the
\* flag is never left set with nothing that can clear it.
C37_ThinkingCanBeCleared ==
    isAiThinkingRef => CallbackPossible

\* The frame in which the ball settled as a new bubble.
SettleTick == lastOp'.kind \in {"settle", "thrown"} /\ bubbles' # bubbles

\* C39: the bubble a settled shot creates has the colour selected when the
\* collision is found (selectedColorRef.current in that frame), whatever the
\* colour was when the ball was released, and that is the colour matched: a
\* new bubble that is popped in the frame was part of a match.
C39_ColorAtCollision ==
    [][SettleTick =>
          LET newBubble == bubbles'[Len(bubbles) + 1]
          IN  /\ newBubble.id = lastOp'.id
              /\ newBubble.color = selectedColorRef
              /\ lastOp'.selected = selectedColorRef
              /\ ~newBubble.active => lastOp'.matched]_vars

\* C39 witness: a ball released while red was selected has settled as a
\* bubble of another colour, selected while it was in the air.
C39_Witness ==
    /\ lastOp.kind = "settle"
    /\ lastLaunch.color = "red"
    /\ totalShotsRef = 1
    /\ lastOp.selected # "red"
    /\ BubbleWithId(bubbles, lastOp.id).color = lastOp.selected

====
